---- MODULE Spec2Model ----
(***************************************************************************)
(* Job Matching & Listing Lifecycle Engine of jobTracker                   *)
(* (src/backend/server.js).                                                *)
(*                                                                         *)
(* Time is counted in weeks. Texts (titles, descriptions, resumes) are     *)
(* sequences of lowercase words; the empty sequence stands for a null or   *)
(* empty text (the code only ever tests such a text for falsiness).        *)
(* Every db.get / db.run / db.all callback and every await is one step;    *)
(* a storage call may fail wherever the code has an error branch for it.   *)
(***************************************************************************)
EXTENDS Integers, Sequences, FiniteSets, TLC

\* ------------------------------------------------------------------ bounds
MaxTime == 2
MaxUpserts == 2
MaxIngest == 1
MaxUploads == 1
MaxCalcTime == 5
MaxMatchId == 2
MaxReuploads == 2
\* PAGE_SIZE is 8 and maxFetchAttempts is 20 in finder.js; the model scales
\* both down and keeps REQUEST_SIZE = PAGE_SIZE * 5
PAGE_SIZE == 2
maxFetchAttempts == 2
MaxSaves == 2
MaxTextLen == 3
MaxRuns == 2
MaxCalls == 3
MaxLogins == 2
MaxAuthTime == 4

\* ------------------------------------------------------- values and inputs
\* SQL NULL / JS null in a timestamp column
NoTime == -1
\* SQL NULL / JS null / '' in a text column
NoText == << >>
\* no row returned by a lookup
NoRow == [id |-> 0]

\* twoWeeksInMs = 14 * 24 * 60 * 60 * 1000, in weeks
TwoWeeks == 2

Range(s) == {s[i] : i \in 1..Len(s)}

\* the values job.job_posted_at_datetime_utc || job.job_posted_at_timestamp
\* || null can take: absent, a string Date cannot parse, an instant.
PostedNull == [kind |-> "null", t |-> 0]
PostedBad == [kind |-> "invalid", t |-> 0]
PostedAt(t) == [kind |-> "instant", t |-> t]
PostedDates == {PostedNull, PostedBad, PostedAt(0), PostedAt(1)}

JobIds == {"j1", "j2"}
T1 == <<"python", "developer">>
T2 == <<"engineer">>
Titles == {T1, T2}
D1 == <<"senior", "python", "bachelor">>
D2 == <<"teamwork", "java">>
Descriptions == {NoText, D1, D2}
R1 == <<"python", "bachelor">>
R2 == <<"senior", "python">>
ResumeTexts == {R1, R2}
Filenames == {"cv.pdf"}
\* job.employer_name of the postings
Employer == <<"Acme">>

\* request handlers that can be in flight at the same time; a new request is
\* given the first free one
Reqs == {"r1", "r2"}
HandlerIndex(r) == IF r = "r1" THEN 1 ELSE 2

\* ------------------------------------------------------ keyword taxonomy
PROGRAMMING_LANGUAGES == <<"javascript", "python", "java">>
FRAMEWORKS_AND_LIBRARIES == <<"react", "django">>
TOOLS_AND_PLATFORMS == <<"git", "docker">>
SOFT_SKILLS_AND_CONCEPTS == <<"agile", "teamwork">>
EDUCATION_KEYWORDS == <<"bachelor", "master", "phd">>
EXPERIENCE_KEYWORDS == <<"junior", "senior">>

\* ---------------------------------------------------------- match scorer
\* pattern.test(normalizedText) for a one-word keyword: the keyword is one
\* of the words of the text
extractKeywords(text, keywordList) ==
    SelectSeq(keywordList, LAMBDA k : k \in Range(text))

\* [...new Set([...a, ...b])]: concatenation keeping first occurrences
RECURSIVE Dedup(_)
Dedup(s) ==
    IF s = << >> THEN << >>
    ELSE LET init == Dedup(SubSeq(s, 1, Len(s) - 1))
             last == s[Len(s)]
         IN  IF last \in Range(init) THEN init ELSE Append(init, last)

extractAllSkills(text) ==
    LET languages == extractKeywords(text, PROGRAMMING_LANGUAGES)
        frameworks == extractKeywords(text, FRAMEWORKS_AND_LIBRARIES)
        tools == extractKeywords(text, TOOLS_AND_PLATFORMS)
        softSkills == extractKeywords(text, SOFT_SKILLS_AND_CONCEPTS)
        education == extractKeywords(text, EDUCATION_KEYWORDS)
        experience == extractKeywords(text, EXPERIENCE_KEYWORDS)
        technical == Dedup(languages \o frameworks \o tools)
    IN  [technical |-> technical, softSkills |-> softSkills,
         education |-> education, experience |-> experience]

\* jobSkills[axis].filter(skill => resumeSkills[axis].includes(skill))
Matched(jobAxis, resumeAxis) ==
    SelectSeq(jobAxis, LAMBDA k : k \in Range(resumeAxis))

\* Math.round of the quotient of two integers (a tie of such a quotient is a
\* Number, k + 1/2, so that the division rounds nothing away at a tie)
Round(num, den) == (2 * num + den) \div (2 * den)

\* ----------------------------------------- Number: IEEE-754 binary64
\* A natural number of any size: limbs of 13 bits, lowest first, no leading
\* zero limb.
Limb == 2^13

RECURSIVE Big(_)
Big(n) == IF n = 0 THEN << >> ELSE <<n % Limb>> \o Big(n \div Limb)

RECURSIVE ToInt(_)
ToInt(a) == IF a = << >> THEN 0 ELSE Head(a) + Limb * ToInt(Tail(a))

Trim(a) == IF a # << >> /\ a[Len(a)] = 0 THEN SubSeq(a, 1, Len(a) - 1) ELSE a

RECURSIVE BigAddCarry(_, _, _)
BigAddCarry(a, b, c) ==
    IF a = << >> /\ b = << >> THEN Big(c)
    ELSE LET x == IF a = << >> THEN 0 ELSE Head(a)
             y == IF b = << >> THEN 0 ELSE Head(b)
             sum == x + y + c
         IN  <<sum % Limb>> \o BigAddCarry(IF a = << >> THEN a ELSE Tail(a),
                                           IF b = << >> THEN b ELSE Tail(b),
                                           sum \div Limb)

BigAdd(a, b) == BigAddCarry(a, b, 0)

RECURSIVE BigTimesCarry(_, _, _)
BigTimesCarry(a, k, c) ==
    IF a = << >> THEN Big(c)
    ELSE LET prod == Head(a) * k + c
         IN  <<prod % Limb>> \o BigTimesCarry(Tail(a), k, prod \div Limb)

\* a * k for k below 2^17
BigTimes(a, k) == IF k = 0 THEN << >> ELSE BigTimesCarry(a, k, 0)

RECURSIVE BigMul(_, _)
BigMul(a, b) ==
    IF a = << >> \/ b = << >> THEN << >>
    ELSE LET rest == BigMul(a, Tail(b))
         IN  BigAdd(BigTimes(a, Head(b)),
                    IF rest = << >> THEN rest ELSE <<0>> \o rest)

\* quotient and remainder of a by d, for d below 2^17
RECURSIVE BigDiv(_, _)
BigDiv(a, d) ==
    IF a = << >> THEN [q |-> << >>, r |-> 0]
    ELSE LET high == BigDiv(Tail(a), d)
             cur == high.r * Limb + Head(a)
         IN  [q |-> Trim(<<cur \div d>> \o high.q), r |-> cur % d]

\* a * 2^bits
ShiftLeft(a, bits) ==
    IF a = << >> THEN a
    ELSE [i \in 1..(bits \div 13) |-> 0] \o BigTimes(a, 2^(bits % 13))

\* floor(a / 2^bits)
ShiftRight(a, bits) ==
    BigDiv(SubSeq(a, (bits \div 13) + 1, Len(a)), 2^(bits % 13)).q

\* the significand of a double has 53 bits: a is 2^53 or more
Wide(a) == Len(a) > 5 \/ (Len(a) = 5 /\ a[5] >= 2)

\* A finite non-negative Number is m * 2^e with m below 2^53 (or m = 2^53).
\* The Number nearest to M * 2^e plus a fraction of its last bit (guard: the
\* bit below M, sticky: something lies below the guard bit), ties to even.
RECURSIVE RoundNearestEven(_, _, _, _)
RoundNearestEven(M, e, guard, sticky) ==
    IF Len(M) > 5
    THEN \* a whole limb is dropped: its top bit is the guard bit
         RoundNearestEven(Tail(M), e + 13, Head(M) \div 2^12,
                          sticky \/ guard = 1 \/ Head(M) % 2^12 # 0)
    ELSE IF Wide(M)
    THEN LET half == BigDiv(M, 2)
         IN  RoundNearestEven(half.q, e + 1, half.r, sticky \/ guard = 1)
    ELSE IF guard = 1 /\ (sticky \/ (M # << >> /\ M[1] % 2 = 1))
    THEN [m |-> BigAdd(M, <<1>>), e |-> e]
    ELSE [m |-> M, e |-> e]

\* the Number of a small integer
Num(n) == [m |-> Big(n), e |-> 0]

\* p / q of two small integers; also the value of the decimal literal p/q
NumDiv(p, q) ==
    IF p = 0 THEN Num(0)
    ELSE LET d == BigDiv(ShiftLeft(Big(p), 60), q)
         IN  RoundNearestEven(d.q, -60, 0, d.r # 0)

\* a * b
NumMul(a, b) == RoundNearestEven(BigMul(a.m, b.m), a.e + b.e, 0, FALSE)

\* a + b
NumAdd(a, b) ==
    IF a.m = << >> THEN b
    ELSE IF b.m = << >> THEN a
    ELSE LET e == IF a.e < b.e THEN a.e ELSE b.e
         IN  RoundNearestEven(BigAdd(ShiftLeft(a.m, a.e - e),
                                     ShiftLeft(b.m, b.e - e)), e, 0, FALSE)

\* Math.round(x) for x >= 0: floor(x + 1/2), computed exactly
MathRound(x) ==
    IF x.m = << >> THEN 0
    ELSE IF x.e >= 0 THEN ToInt(ShiftLeft(x.m, x.e))
    ELSE ToInt(BigDiv(BigAdd(ShiftRight(x.m, (-x.e) - 1), <<1>>), 2).q)

\* variant: an axis without a job-side skill scores nothing
AxisScore_ZeroWithoutSkills(matched, required) ==
    IF required > 0 THEN NumMul(NumDiv(matched, required), Num(100)) ELSE Num(0)

\* (matched.length / jobSkills[axis].length) * 100, or 100 without a
\* job-side skill
AxisScore(matched, required) ==
    IF required > 0 THEN NumMul(NumDiv(matched, required), Num(100)) ELSE Num(100)

\* the pairs matched.length, jobSkills[axis].length an axis can have
MaxSkills ==
    Len(PROGRAMMING_LANGUAGES) + Len(FRAMEWORKS_AND_LIBRARIES) + Len(TOOLS_AND_PLATFORMS)

Counts == {c \in (0..MaxSkills) \X (0..MaxSkills) : c[1] <= c[2]}

\* for every pair, evaluated once: the axis score, its rounded value and its
\* products with the weights .1, .2, .3 and .4
AxisScores ==
    {[pair |-> c,
      rounded |-> MathRound(AxisScore(c[1], c[2])),
      weighted |-> <<NumMul(AxisScore(c[1], c[2]), NumDiv(1, 10)),
                     NumMul(AxisScore(c[1], c[2]), NumDiv(2, 10)),
                     NumMul(AxisScore(c[1], c[2]), NumDiv(3, 10)),
                     NumMul(AxisScore(c[1], c[2]), NumDiv(4, 10))>>] : c \in Counts}

ScoreOf(c) == CHOOSE x \in AxisScores : x.pair = c

\* variant: every axis weighs .4
FinalScore_EqualWeights(technical, softSkills, experience, education) ==
    MathRound(NumAdd(NumAdd(NumAdd(ScoreOf(technical).weighted[4],
                                   ScoreOf(softSkills).weighted[4]),
                            ScoreOf(experience).weighted[4]),
                     ScoreOf(education).weighted[4]))

\* Math.round((technicalScore * .1) + (softSkillsScore * .2) +
\* (experienceScore * .4) + (educationScore * .3)), each score given by its
\* pair
FinalScore(technical, softSkills, experience, education) ==
    MathRound(NumAdd(NumAdd(NumAdd(ScoreOf(technical).weighted[1],
                                   ScoreOf(softSkills).weighted[2]),
                            ScoreOf(experience).weighted[4]),
                     ScoreOf(education).weighted[3]))

\* calculateMatchScore: the skills of the job are extracted from jobDesc
\* (fullJobText is built and not used).  The four axis scores are Numbers,
\* (m / n) * 100, or 100 when n = 0; the weighted sum is rounded once, and
\* each axis score is rounded for the breakdown.
calculateMatchScore(resumeText, jobDesc, jobTitle) ==
    LET resumeSkills == extractAllSkills(resumeText)
        jobSkills == extractAllSkills(jobDesc)
        pair(axis) == <<Len(Matched(jobSkills[axis], resumeSkills[axis])),
                        Len(jobSkills[axis])>>
    IN  [score |-> FinalScore(pair("technical"), pair("softSkills"),
                              pair("experience"), pair("education")),
         breakdown |-> [technical |-> ScoreOf(pair("technical")).rounded,
                        softSkills |-> ScoreOf(pair("softSkills")).rounded,
                        experience |-> ScoreOf(pair("experience")).rounded,
                        education |-> ScoreOf(pair("education")).rounded]]

\* ------------------------------------------------------------ expiration
\* new Date(postedDate).getTime(): the instant, or NaN (NoTime)
ParseDate(p) == IF p.kind = "instant" THEN p.t ELSE NoTime

\* variant: the created_at fallback leaves expirationMethod at its initial
\* value 'posted_date'
calculateJobExpiration_KeepsMethod(postedDate, createdAt) ==
    LET fromPosted ==
            IF postedDate.kind # "null" /\ ParseDate(postedDate) # NoTime
            THEN ParseDate(postedDate) + TwoWeeks ELSE NoTime
        fromCreated ==
            IF fromPosted = NoTime /\ createdAt.kind # "null"
               /\ ParseDate(createdAt) # NoTime
            THEN ParseDate(createdAt) + TwoWeeks ELSE NoTime
    IN  IF fromPosted # NoTime
        THEN [expiresAt |-> fromPosted, expirationMethod |-> "posted_date"]
        ELSE IF fromCreated # NoTime
        THEN [expiresAt |-> fromCreated, expirationMethod |-> "posted_date"]
        ELSE [expiresAt |-> NoTime, expirationMethod |-> "never"]

calculateJobExpiration(postedDate, createdAt) ==
    LET fromPosted ==
            IF postedDate.kind # "null" /\ ParseDate(postedDate) # NoTime
            THEN ParseDate(postedDate) + TwoWeeks ELSE NoTime
        fromCreated ==
            IF fromPosted = NoTime /\ createdAt.kind # "null"
               /\ ParseDate(createdAt) # NoTime
            THEN ParseDate(createdAt) + TwoWeeks ELSE NoTime
    IN  IF fromPosted # NoTime
        THEN [expiresAt |-> fromPosted, expirationMethod |-> "posted_date"]
        ELSE IF fromCreated # NoTime
        THEN [expiresAt |-> fromCreated, expirationMethod |-> "created_at"]
        ELSE [expiresAt |-> NoTime, expirationMethod |-> "never"]

\* ------------------------------------------------------------ summarizer
\* a summary of a description; NoText is "no summary"
SummaryOf(description) == <<"summary">> \o description

\* what generateJobDescriptionSummary(description) can resolve to: null when
\* the description is empty, Ollama is unavailable, or the call fails;
\* otherwise the model's summary of that description
generateJobDescriptionSummary(description) ==
    IF description = NoText THEN {NoText}
    ELSE {NoText, SummaryOf(description)}

\* ------------------------------------------------------------------ state
VARIABLES
    now,            \* the wall clock read by new Date() / CURRENT_TIMESTAMP
    job_listings,   \* table job_listings: a set of rows
    resumes,        \* table resumes: a set of rows
    resumeSeq,      \* sqlite_sequence of resumes (AUTOINCREMENT)
    job_matches,    \* table job_matches: a set of rows
    ups,            \* per request handler: the upsertJobListing call it runs
    tasks,          \* pending callbacks of the post-commit match recalculation
    cam,            \* the calculateAllMatches run of the upload handler
    camResult,      \* what the last calculateAllMatches run settled with
    sweep,          \* the last mark-expired request: its currentTime, the
                    \* expired_count it answered, the ids expired after it
    upsertCount,    \* number of upserts started
    uploadCount,    \* number of uploads accepted
    commits,        \* history: number of the upsert committed last, and per
                    \* external id the resume that was current at its last commit
    calc,           \* a call of calculateJobExpiration: arguments and result
    reader,         \* a request of the match read path (GET /api/matches)
    replaced,       \* history: an INSERT OR REPLACE INTO job_matches hit a stored pair
    saved_jobs,     \* table saved_jobs
    finder,         \* the finder page: its globals and its fetchJobs run
    listed,         \* the last answer of GET /api/jobs or GET /api/jobs/count
    search,         \* a request of GET /api/jobs/search: its position and answer
    upload,         \* the POST /api/resume/upload request looked at step by step
    scored,         \* a call of calculateMatchScore: arguments and result
    norm,           \* a call of normalizeText and a second call on its result
    calls,          \* the fetchJobs calls of a finder page and what they share
    auth,           \* twoFactorCodes, the clock of the logins and their answers
    runs            \* upload requests in flight at once, each with its
                    \* calculateAllMatches run, and the text uploaded under each id

\* the variables of the match read path and of the finder
extVars == <<reader, replaced, saved_jobs, finder>>

\* the variables of the requests looked at one at a time
auxVars == <<norm, auth, runs, calls>>

reqVars == <<listed, search, upload, scored, auxVars>>

vars == <<reqVars, extVars, calc, now, job_listings, resumes, resumeSeq, job_matches, ups, tasks,
          cam, camResult, sweep, upsertCount, uploadCount, commits>>

\* no summarizer call was made (history of an upsert)
Uncalled == <<"uncalled">>

\* the columns of a listing that do not depend on the clock
Proj(x) == IF x = NoRow THEN NoRow
           ELSE [id |-> 1, title |-> x.title, description |-> x.description,
                 description_summary |-> x.description_summary,
                 posted_date |-> x.posted_date]

NoInput == [job_id |-> "", title |-> NoText, company |-> NoText,
            description |-> NoText, posted_date |-> PostedNull]

NoExpiration == [expiresAt |-> NoTime, expirationMethod |-> "never"]

IdleSlot == [pc |-> "idle", row |-> NoInput, expiration |-> NoExpiration,
             descriptionSummary |-> NoText,
             n |-> 0, peer |-> 0, base |-> NoRow, resp |-> Uncalled,
             rdFail |-> FALSE, wrFail |-> FALSE]

IdleCam == [pc |-> "idle", resumeID |-> 0, rawText |-> NoText, jobs |-> {},
            pending |-> << >>, totalScore |-> 0, jobsProcessed |-> 0,
            jobsToProcess |-> 0, failed |-> FALSE]

NoResult == [status |-> "none", resumeID |-> 0, jobsProcessed |-> 0,
             averageScore |-> 0, failed |-> FALSE]

\* the rows the postings of a provider answer map to (mapJSearchJobToDB);
\* a posting without job_id is skipped by the search handler
Posting(j, title, company, description, posted) ==
    [job_id |-> j, title |-> title, company |-> company,
     description |-> description, posted_date |-> posted]

InputRows == {Posting("j1", T1, Employer, D1, PostedAt(0)),
              Posting("j1", T2, Employer, D2, PostedNull),
              Posting("j1", T2, Employer, NoText, PostedBad),
              Posting("j2", T1, Employer, D1, PostedAt(1))}

NoCalc == [postedDate |-> PostedNull, createdAt |-> PostedNull,
           returned |-> FALSE, result |-> NoExpiration]

\* no answer of the list or the count endpoint yet
NoAnswer == [kind |-> "none", limit |-> 0, offset |-> 0, status |-> 0,
             jobs |-> << >>, total |-> 0]

\* no search request in flight. History: the number of provider calls of the
\* request and the positions of the postings whose upsert was started
IdleSearch == [pc |-> "idle", calls |-> 0, jobs |-> << >>, i |-> 0,
               attempted |-> {}, status |-> 0, body |-> << >>]

\* no upload answered yet
NoUpload == [pc |-> "idle", status |-> 0, mimetype |-> "none", extracted |-> FALSE,
             text |-> NoText]

NoScore == [returned |-> FALSE, resumeText |-> NoText, jobDesc |-> NoText,
            jobTitle |-> NoText,
            result |-> [score |-> 0,
                        breakdown |-> [technical |-> 0, softSkills |-> 0,
                                       experience |-> 0, education |-> 0]]]

\* no call of normalizeText yet
NoNorm == [pc |-> "idle", text |-> [kind |-> "null", chars |-> << >>],
           result |-> << >>, again |-> << >>]

\* users.id of the accounts: 1 and 2 have two_factor_enabled, 3 has not
UserIds == {1, 2, 3}

\* twoFactorCodes.get(userId) === undefined
NoCode == [code |-> "", expiresAt |-> NoTime, login |-> 0]

\* no 2FA code stored, no request answered; logins is the record of the
\* logins that stored a code and of the verifications each code passed
NoAuth ==
    [twoFactorCodes |-> [u \in UserIds |-> NoCode], clock |-> 0, logins |-> << >>,
     answer |-> [route |-> "none", status |-> 0, userId |-> 0, code |-> "",
                 authenticated |-> FALSE]]

\* a finder page before DOMContentLoaded: no call issued, no debounce timer,
\* totalJobsCount = null
NoCalls ==
    [flight |-> << >>, debounce |-> "", view |-> "blank", allJobs |-> << >>,
     currentPage |-> 1, currentQuery |-> "", totalJobsCount |-> -1,
     counting |-> {}]

\* the upload requests that can be in flight at once
RunIds == 1..MaxRuns

\* no upload request in flight, nothing uploaded
NoRuns == [run |-> [k \in RunIds |-> IdleCam], texts |-> << >>]

InitReq ==
    /\ listed = NoAnswer
    /\ search = IdleSearch
    /\ upload = NoUpload
    /\ scored = NoScore
    /\ norm = NoNorm
    /\ auth = NoAuth
    /\ runs = NoRuns
    /\ calls = NoCalls

IdleReader == [pc |-> "idle", resumeID |-> 0, uploaded |-> 0, settled |-> FALSE,
               answer |-> "none", matches |-> {}]

\* totalJobsCount = null
NoCount == -1

\* the finder page before DOMContentLoaded: the globals of finder.js, the
\* locals of its fetchJobs run, the job cards shown, the requests in flight
\* (saving: the save handlers waiting for their POST /jobs), the pending
\* timers that reset preventCountRefetch, the number of save clicks so far.
\* error: the error message is shown in place of the cards. History: whether
\* the run's saved-jobs request failed, and the pages shown while paging
\* forward from page 1.
IdleFinder ==
    [pc |-> "idle", loaded |-> FALSE,
     page |-> 1, savedJobs |-> {}, allUnsavedJobs |-> << >>, databaseOffset |-> 0,
     fetchAttempts |-> 0, hasMoreData |-> TRUE,
     allJobs |-> << >>, cards |-> << >>, currentPage |-> 1, lastPageCount |-> 0,
     totalJobsCount |-> NoCount, isSavingJob |-> FALSE,
     preventCountRefetch |-> FALSE, nextDisabled |-> TRUE,
     counting |-> FALSE, saving |-> {}, timers |-> 0, clicks |-> 0,
     savedFailed |-> FALSE, error |-> FALSE,
     browse |-> [pages |-> << >>, complete |-> FALSE, clean |-> TRUE]]

Init ==
    /\ reader = IdleReader
    /\ replaced = FALSE
    /\ saved_jobs = {}
    /\ finder = IdleFinder
    /\ InitReq
    /\ calc = NoCalc
    /\ now = 0
    /\ job_listings = {}
    /\ resumes = {}
    /\ resumeSeq = 0
    /\ job_matches = {}
    /\ ups = [r \in Reqs |-> IdleSlot]
    /\ tasks = {}
    /\ cam = IdleCam
    /\ camResult = NoResult
    /\ sweep = [at |-> NoTime, count |-> 0, expired |-> {}]
    /\ upsertCount = 0
    /\ uploadCount = 0
    /\ commits = [n |-> 0, resume |-> [j \in JobIds |-> 0]]

\* ------------------------------------------------------- storage helpers
\* SELECT ... FROM job_listings WHERE job_id = ?
ListingByJobId(j) ==
    IF \E x \in job_listings : x.job_id = j
    THEN CHOOSE x \in job_listings : x.job_id = j
    ELSE NoRow

\* INTEGER PRIMARY KEY AUTOINCREMENT of job_listings (rows are never deleted)
NextListingId ==
    IF job_listings = {} THEN 1
    ELSE 1 + CHOOSE m \in {x.id : x \in job_listings} :
                 \A x \in job_listings : x.id <= m

\* COALESCE(a, b) on a text column
Coalesce(a, b) == IF a # NoText THEN a ELSE b

\* SELECT ... FROM resumes ORDER BY updated_at DESC LIMIT 1: a row with the
\* latest update timestamp (any of them when the timestamps tie)
LatestResumes ==
    {x \in resumes : \A y \in resumes : y.updated_at <= x.updated_at}

\* variant: the conflict clause also takes status from the incoming row
UpsertStatement_ResetsStatus(table, v, clock) ==
    IF \E x \in table : x.job_id = v.job_id
    THEN {IF x.job_id = v.job_id
          THEN [x EXCEPT !.title = v.title,
                         !.company = v.company,
                         !.description = v.description,
                         !.description_summary =
                             Coalesce(v.description_summary, x.description_summary),
                         !.posted_date = v.posted_date,
                         !.status = v.status,
                         !.expiration_method = v.expiration_method,
                         !.expires_at = v.expires_at]
          ELSE x : x \in table}
    ELSE table \cup
         {[id |-> NextListingId, job_id |-> v.job_id, title |-> v.title,
           company |-> v.company, description |-> v.description,
           description_summary |-> v.description_summary,
           posted_date |-> v.posted_date, created_at |-> clock,
           status |-> v.status, expiration_method |-> v.expiration_method,
           expires_at |-> v.expires_at]}

\* variant: a plain INSERT without the conflict clause on a table without
\* the UNIQUE constraint
UpsertStatement_AlwaysInserts(table, v, clock) ==
    table \cup
         {[id |-> NextListingId, job_id |-> v.job_id, title |-> v.title,
           company |-> v.company, description |-> v.description,
           description_summary |-> v.description_summary,
           posted_date |-> v.posted_date, created_at |-> clock,
           status |-> v.status, expiration_method |-> v.expiration_method,
           expires_at |-> v.expires_at]}

\* variant: INSERT OR REPLACE, which deletes the row in conflict and inserts
\* the incoming one
UpsertStatement_Replaces(table, v, clock) ==
    {x \in table : x.job_id # v.job_id} \cup
         {[id |-> NextListingId, job_id |-> v.job_id, title |-> v.title,
           company |-> v.company, description |-> v.description,
           description_summary |-> v.description_summary,
           posted_date |-> v.posted_date, created_at |-> clock,
           status |-> v.status, expiration_method |-> v.expiration_method,
           expires_at |-> v.expires_at]}

\* the INSERT ... ON CONFLICT(job_id) DO UPDATE statement of upsertJobListing
\* applied to the table: status and created_at are set by the INSERT only
UpsertStatement(table, v, clock) ==
    IF \E x \in table : x.job_id = v.job_id
    THEN {IF x.job_id = v.job_id
          THEN [x EXCEPT !.title = v.title,
                         !.company = v.company,
                         !.description = v.description,
                         !.description_summary =
                             Coalesce(v.description_summary, x.description_summary),
                         !.posted_date = v.posted_date,
                         !.expiration_method = v.expiration_method,
                         !.expires_at = v.expires_at]
          ELSE x : x \in table}
    ELSE table \cup
         {[id |-> NextListingId, job_id |-> v.job_id, title |-> v.title,
           company |-> v.company, description |-> v.description,
           description_summary |-> v.description_summary,
           posted_date |-> v.posted_date, created_at |-> clock,
           status |-> v.status, expiration_method |-> v.expiration_method,
           expires_at |-> v.expires_at]}

\* variant: a plain INSERT into a table without the UNIQUE constraint
InsertOrReplaceMatch_Appends(table, resumeID, jobID, score) ==
    table \cup {[resume_id |-> resumeID, job_id |-> jobID, matched_score |-> score]}

\* INSERT OR REPLACE INTO job_matches: UNIQUE(resume_id, job_id)
InsertOrReplaceMatch(table, resumeID, jobID, score) ==
    {x \in table : ~(x.resume_id = resumeID /\ x.job_id = jobID)}
        \cup {[resume_id |-> resumeID, job_id |-> jobID, matched_score |-> score]}

\* ------------------------------------------------- upsertJobListing steps
\* variant: the statement is run before the summary is resolved
upsertJobListing_WritesFirst(r, row) ==
    /\ ups[r].pc = "idle"
    /\ \A q \in Reqs : ups[q].pc = "idle" => HandlerIndex(r) <= HandlerIndex(q)
    /\ upsertCount < MaxUpserts
    /\ LET n == upsertCount + 1
           overlapping == {q \in Reqs \ {r} :
                              ups[q].pc # "idle" /\ ups[q].row.job_id = row.job_id}
           mine == [pc |-> "write",
                    row |-> row,
                    expiration |-> calculateJobExpiration(row.posted_date, PostedAt(now)),
                    descriptionSummary |-> NoText,
                    n |-> n,
                    peer |-> IF overlapping = {} THEN 0
                             ELSE ups[CHOOSE q \in overlapping : TRUE].n,
                    base |-> Proj(ListingByJobId(row.job_id)),
                    resp |-> Uncalled, rdFail |-> FALSE, wrFail |-> FALSE]
       IN  ups' = [q \in Reqs |->
                     IF q = r THEN mine
                     ELSE IF ups[q].pc = "idle" THEN IdleSlot
                     ELSE IF q \in overlapping
                     THEN [ups[q] EXCEPT !.peer = IF @ = 0 THEN n ELSE -1]
                     ELSE ups[q]]
    /\ upsertCount' = upsertCount + 1
    /\ UNCHANGED <<listed, upload, scored, auxVars, extVars, calc, now, job_listings, resumes,
                   resumeSeq, job_matches, tasks,
                   cam, camResult, sweep, uploadCount, commits>>

\* upsertJobListing(db, row) is entered by the search handler for one mapped
\* posting: the expiration is computed from row.posted_date and the current
\* time; with a description the existing summary is read next, without one
\* the statement is run at once with a null summary.
upsertJobListing(r, row) ==
    /\ ups[r].pc = "idle"
    /\ \A q \in Reqs : ups[q].pc = "idle" => HandlerIndex(r) <= HandlerIndex(q)
    /\ upsertCount < MaxUpserts
    /\ LET n == upsertCount + 1
           overlapping == {q \in Reqs \ {r} :
                              ups[q].pc # "idle" /\ ups[q].row.job_id = row.job_id}
           mine == [pc |-> IF row.description # NoText THEN "read" ELSE "write",
                    row |-> row,
                    expiration |-> calculateJobExpiration(row.posted_date, PostedAt(now)),
                    descriptionSummary |-> NoText,
                    n |-> n,
                    peer |-> IF overlapping = {} THEN 0
                             ELSE ups[CHOOSE q \in overlapping : TRUE].n,
                    base |-> Proj(ListingByJobId(row.job_id)),
                    resp |-> Uncalled, rdFail |-> FALSE, wrFail |-> FALSE]
       IN  ups' = [q \in Reqs |->
                     IF q = r THEN mine
                     ELSE IF ups[q].pc = "idle" THEN IdleSlot
                     ELSE IF q \in overlapping
                     THEN [ups[q] EXCEPT !.peer = IF @ = 0 THEN n ELSE -1]
                     ELSE ups[q]]
    /\ upsertCount' = upsertCount + 1
    /\ UNCHANGED <<listed, upload, scored, auxVars, extVars, calc, now, job_listings, resumes,
                   resumeSeq, job_matches, tasks,
                   cam, camResult, sweep, uploadCount, commits>>

\* upsertJobListing entered for a posting of a search request whose other
\* steps are not looked at
UpsertStart(r, row) ==
    /\ upsertJobListing(r, row)
    /\ UNCHANGED search

\* callback of SELECT description_summary ...: an error is turned into "no
\* existing row" by .catch(() => null)
UpsertRead(r, fail) ==
    /\ ups[r].pc = "read"
    /\ LET existingJob == IF fail THEN NoRow ELSE ListingByJobId(ups[r].row.job_id)
       IN  IF existingJob = NoRow \/ existingJob.description_summary = NoText
           THEN ups' = [ups EXCEPT ![r].pc = "summarize", ![r].rdFail = fail]
           ELSE ups' = [ups EXCEPT ![r].pc = "write", ![r].rdFail = fail,
                                   ![r].descriptionSummary =
                                       existingJob.description_summary]
    /\ UNCHANGED <<reqVars, extVars, calc, now, job_listings, resumes, resumeSeq, job_matches, tasks,
                   cam, camResult, sweep, upsertCount, uploadCount, commits>>

\* await generateJobDescriptionSummary(row.description) resolves
UpsertSummarize(r, summary) ==
    /\ ups[r].pc = "summarize"
    /\ summary \in generateJobDescriptionSummary(ups[r].row.description)
    /\ ups' = [ups EXCEPT ![r].pc = "write", ![r].descriptionSummary = summary,
                          ![r].resp = summary]
    /\ UNCHANGED <<reqVars, extVars, calc, now, job_listings, resumes, resumeSeq, job_matches, tasks,
                   cam, camResult, sweep, upsertCount, uploadCount, commits>>

\* the slot after its upsert settled: the history of an upsert that ran
\* alone is dropped, that of an overlapping pair is kept until the next start
Settled(slot, failed) ==
    IF slot.peer = 0 THEN IdleSlot
    ELSE [slot EXCEPT !.pc = "idle", !.wrFail = failed]

\* the id of the resume that is current (0: none)
CurrentResumeId ==
    IF resumes = {} THEN 0
    ELSE CHOOSE m \in {x.id : x \in LatestResumes} :
             \A x \in LatestResumes : x.id <= m

\* callback of the INSERT ... ON CONFLICT statement: on error the promise is
\* rejected (the search handler swallows it); otherwise the id lookup that
\* leads to recalculateMatches is queued and the promise resolved
UpsertWrite(r, fail) ==
    /\ ups[r].pc = "write"
    /\ LET slot == ups[r]
           v == [job_id |-> slot.row.job_id, title |-> slot.row.title,
                 company |-> slot.row.company,
                 description |-> slot.row.description,
                 description_summary |-> slot.descriptionSummary,
                 posted_date |-> slot.row.posted_date, status |-> "active",
                 expiration_method |-> slot.expiration.expirationMethod,
                 expires_at |-> slot.expiration.expiresAt]
       IN  /\ ups' = [ups EXCEPT ![r] = Settled(slot, fail)]
           /\ IF fail
              THEN UNCHANGED <<job_listings, tasks, commits>>
              ELSE /\ job_listings' = UpsertStatement(job_listings, v, now)
                   /\ tasks' = tasks \cup
                          {[pc |-> "lookup", job_id |-> slot.row.job_id, jobID |-> 0,
                            title |-> slot.row.title,
                            description |-> slot.row.description]}
                   /\ commits' = [n |-> slot.n,
                                   resume |-> [commits.resume EXCEPT
                                       ![slot.row.job_id] = CurrentResumeId]]
    /\ UNCHANGED <<reqVars, extVars, calc, now, resumes, resumeSeq, job_matches, cam, camResult, sweep,
                   upsertCount, uploadCount>>

\* ------------------------------------------- post-commit recalculateMatches
\* callback of SELECT id FROM job_listings WHERE job_id = ?: with a row,
\* recalculateMatches(jobRow.id, row.title, row.description) is called; it
\* returns at once without a description and queues the resume read otherwise
TaskLookup(fail) ==
    /\ \E t \in tasks :
           /\ t.pc = "lookup"
           /\ LET jobRow == ListingByJobId(t.job_id)
              IN  tasks' = IF ~fail /\ jobRow # NoRow /\ t.description # NoText
                           THEN (tasks \ {t})
                                    \cup {[t EXCEPT !.pc = "resume", !.jobID = jobRow.id]}
                           ELSE tasks \ {t}
    /\ UNCHANGED <<reqVars, extVars, calc, now, job_listings, resumes, resumeSeq, job_matches, ups, cam,
                   camResult, sweep, upsertCount, uploadCount, commits>>

\* resume.<name> is truthy: the property exists on the row object and holds a
\* non-empty text
Truthy(rowObject, name) ==
    name \in DOMAIN rowObject /\ rowObject[name] # NoText

\* the columns of job_matches (CREATE TABLE job_matches)
JobMatchColumns == {"id", "resume_id", "job_id", "matched_score", "breakdown_json",
                    "matched_skills_json", "missing_skills_json", "calculated_at"}

\* the columns named by the INSERT of recalculateMatches
RecalculateInsertColumns == {"resume_id", "job_id", "match_score", "breakdown_json",
                             "matched_skills_json", "missing_skills_json",
                             "calculated_at"}

\* callback of SELECT id, raw_text FROM resumes ORDER BY updated_at DESC
\* LIMIT 1 in recalculateMatches: it returns on an error, without a row and
\* when resume.rawText is falsy (the row object has the properties id and
\* raw_text); past that guard the INSERT it runs names the columns above and
\* stores a row only if the table has them all
TaskResume(fail) ==
    /\ \E t \in tasks :
         \E resume \in IF resumes = {} THEN {NoRow}
                       ELSE {[id |-> x.id, raw_text |-> x.raw_text] : x \in LatestResumes} :
           /\ t.pc = "resume"
           /\ tasks' = tasks \ {t}
           /\ job_matches' =
                 IF ~fail /\ resume # NoRow /\ Truthy(resume, "rawText")
                    /\ RecalculateInsertColumns \subseteq JobMatchColumns
                 THEN InsertOrReplaceMatch(job_matches, resume.id, t.jobID,
                          calculateMatchScore(resume.raw_text, t.description,
                                              t.title).score)
                 ELSE job_matches
    /\ UNCHANGED <<reqVars, extVars, calc, now, job_listings, resumes, resumeSeq, ups, cam, camResult,
                   sweep, upsertCount, uploadCount, commits>>

\* ------------------------------------------------ POST /api/jobs/mark-expired
ExpiredIds(table) == {x.id : x \in {y \in table : y.status = "expired"}}

\* variant: expires_at < ? instead of expires_at <= ?
SweepSelects_Strict(x, currentTime) ==
    /\ x.status = "active"
    /\ x.expires_at # NoTime
    /\ x.expires_at < currentTime

\* the rows the UPDATE of the sweep selects at currentTime
SweepSelects(x, currentTime) ==
    /\ x.status = "active"
    /\ x.expires_at # NoTime
    /\ x.expires_at <= currentTime

\* variant: the sweep recomputes the status of every row from its expiry
MarkExpired_Recomputes(fail) ==
    /\ IF fail
       THEN UNCHANGED <<job_listings, sweep>>
       ELSE LET due(x) == x.expires_at # NoTime /\ x.expires_at <= now
                after == {[x EXCEPT !.status = IF due(x) THEN "expired" ELSE "active"] :
                             x \in job_listings}
            IN  /\ job_listings' = after
                /\ sweep' = [at |-> now,
                             count |-> Cardinality({x \in job_listings : SweepSelects(x, now)}),
                             expired |-> ExpiredIds(after)]
    /\ UNCHANGED <<reqVars, extVars, calc, now, resumes, resumeSeq, job_matches, ups, tasks, cam, camResult,
                   upsertCount, uploadCount, commits>>

MarkExpired(fail) ==
    /\ IF fail
       THEN UNCHANGED <<job_listings, sweep>>
       ELSE LET after == {IF SweepSelects(x, now) THEN [x EXCEPT !.status = "expired"]
                          ELSE x : x \in job_listings}
            IN  /\ job_listings' = after
                /\ sweep' = [at |-> now,
                             count |-> Cardinality({x \in job_listings : SweepSelects(x, now)}),
                             expired |-> ExpiredIds(after)]
    /\ UNCHANGED <<reqVars, extVars, calc, now, resumes, resumeSeq, job_matches, ups, tasks, cam, camResult,
                   upsertCount, uploadCount, commits>>

\* time passes
Tick ==
    /\ now + 1 <= MaxTime
    /\ now' = now + 1
    /\ UNCHANGED <<reqVars, extVars, calc, job_listings, resumes, resumeSeq, job_matches, ups, tasks,
                   cam, camResult, sweep, upsertCount, uploadCount, commits>>

\* --------------------------- POST /api/resume/upload, calculateAllMatches
\* the rows of a result set in id order
RECURSIVE SeqById(_)
SeqById(S) ==
    IF S = {} THEN << >>
    ELSE LET first == CHOOSE x \in S : \A y \in S : x.id <= y.id
         IN  <<first>> \o SeqById(S \ {first})

\* the handler has parsed a pdf/docx with non-empty text; callback of INSERT
\* OR REPLACE INTO resumes: a row with the same filename is replaced by a new
\* row with a new id (this.lastID), then calculateAllMatches(resumeID,
\* rawText) queues its DELETE.  A failed INSERT answers 500.
saveResume(filename, rawText, fail) ==
    /\ cam.pc = "idle"
    /\ uploadCount' = uploadCount + 1
    /\ IF fail
       THEN UNCHANGED <<resumes, resumeSeq, cam, camResult>>
       ELSE /\ resumeSeq' = resumeSeq + 1
            /\ resumes' = {x \in resumes : x.filename # filename} \cup
                   {[id |-> resumeSeq + 1, filename |-> filename,
                     raw_text |-> rawText, updated_at |-> now]}
            /\ cam' = [IdleCam EXCEPT !.pc = "delete", !.resumeID = resumeSeq + 1,
                                      !.rawText = rawText]
            /\ camResult' = NoResult
    /\ UNCHANGED <<listed, search, scored, auxVars, extVars, calc, now, job_listings,
                   job_matches, ups, tasks, sweep, upsertCount, commits>>

\* a valid resume file is uploaded; the steps of the handler before the
\* INSERT are not looked at
Upload(filename, rawText, fail) ==
    /\ saveResume(filename, rawText, fail)
    /\ UNCHANGED upload

\* callback of DELETE FROM job_matches WHERE resume_id = ?
CamDelete(fail) ==
    /\ cam.pc = "delete"
    /\ IF fail
       THEN /\ cam' = IdleCam
            /\ camResult' = [NoResult EXCEPT !.status = "rejected",
                                             !.resumeID = cam.resumeID,
                                             !.failed = TRUE]
            /\ UNCHANGED job_matches
       ELSE /\ job_matches' = {x \in job_matches : x.resume_id # cam.resumeID}
            /\ cam' = [cam EXCEPT !.pc = "select"]
            /\ UNCHANGED camResult
    /\ UNCHANGED <<reqVars, extVars, calc, now, job_listings, resumes, resumeSeq, ups, tasks, sweep,
                   upsertCount, uploadCount, commits>>

\* variant: jobs without a description are not skipped by the loop
CamSelect_KeepsUndescribed(fail) ==
    /\ cam.pc = "select"
    /\ LET jobs == {[id |-> x.id, title |-> x.title, description |-> x.description] :
                       x \in {y \in job_listings : y.status = "active"}}
           queued == [i \in 1..Cardinality(jobs) |->
                        [job_id |-> SeqById(jobs)[i].id,
                         score |-> calculateMatchScore(cam.rawText,
                                       SeqById(jobs)[i].description,
                                       SeqById(jobs)[i].title).score]]
       IN  IF fail
           THEN /\ cam' = IdleCam
                /\ camResult' = [NoResult EXCEPT !.status = "rejected",
                                                 !.resumeID = cam.resumeID,
                                                 !.failed = TRUE]
           ELSE IF jobs = {}
           THEN /\ cam' = IdleCam
                /\ camResult' = [status |-> "resolved", resumeID |-> cam.resumeID,
                                 jobsProcessed |-> 0, averageScore |-> 0,
                                 failed |-> cam.failed]
           ELSE /\ cam' = [cam EXCEPT !.pc = "insert", !.jobs = jobs,
                                      !.pending = queued,
                                      !.jobsToProcess = Cardinality(jobs)]
                /\ UNCHANGED camResult
    /\ UNCHANGED <<reqVars, extVars, calc, now, job_listings, resumes, resumeSeq, job_matches, ups, tasks,
                   sweep, upsertCount, uploadCount, commits>>

\* callback of SELECT id, title, description FROM job_listings WHERE status =
\* 'active': resolves {0, 0} without jobs or without any described job;
\* otherwise the score of every described job is computed and its INSERT OR
\* REPLACE queued
CamSelect(fail) ==
    /\ cam.pc = "select"
    /\ LET jobs == {[id |-> x.id, title |-> x.title, description |-> x.description] :
                       x \in {y \in job_listings : y.status = "active"}}
           described == {j \in jobs : j.description # NoText}
           queued == [i \in 1..Cardinality(described) |->
                        [job_id |-> SeqById(described)[i].id,
                         score |-> calculateMatchScore(cam.rawText,
                                       SeqById(described)[i].description,
                                       SeqById(described)[i].title).score]]
       IN  IF fail
           THEN /\ cam' = IdleCam
                /\ camResult' = [NoResult EXCEPT !.status = "rejected",
                                                 !.resumeID = cam.resumeID,
                                                 !.failed = TRUE]
           ELSE IF described = {}
           THEN /\ cam' = IdleCam
                /\ camResult' = [status |-> "resolved", resumeID |-> cam.resumeID,
                                 jobsProcessed |-> 0, averageScore |-> 0,
                                 failed |-> cam.failed]
           ELSE /\ cam' = [cam EXCEPT !.pc = "insert", !.jobs = jobs,
                                      !.pending = queued,
                                      !.jobsToProcess = Cardinality(described)]
                /\ UNCHANGED camResult
    /\ UNCHANGED <<reqVars, extVars, calc, now, job_listings, resumes, resumeSeq, job_matches, ups, tasks,
                   sweep, upsertCount, uploadCount, commits>>

\* callback of one INSERT OR REPLACE INTO job_matches: an error is logged;
\* either way the score is added and the job counted, and the promise is
\* resolved with the rounded mean once every queued job was counted
CamInsert(fail) ==
    /\ cam.pc = "insert"
    /\ LET item == Head(cam.pending)
           totalScore == cam.totalScore + item.score
           jobsProcessed == cam.jobsProcessed + 1
       IN  /\ job_matches' =
                  IF fail THEN job_matches
                  ELSE InsertOrReplaceMatch(job_matches, cam.resumeID, item.job_id,
                                            item.score)
           /\ IF jobsProcessed = cam.jobsToProcess
              THEN /\ cam' = IdleCam
                   /\ camResult' =
                          [status |-> "resolved", resumeID |-> cam.resumeID,
                           jobsProcessed |-> jobsProcessed,
                           averageScore |-> IF jobsProcessed > 0
                                            THEN Round(totalScore, jobsProcessed)
                                            ELSE 0,
                           failed |-> cam.failed \/ fail]
              ELSE /\ cam' = [cam EXCEPT !.pending = Tail(@),
                                         !.totalScore = totalScore,
                                         !.jobsProcessed = jobsProcessed,
                                         !.failed = @ \/ fail]
                   /\ UNCHANGED camResult
    /\ UNCHANGED <<reqVars, extVars, calc, now, job_listings, resumes, resumeSeq, ups, tasks, sweep,
                   upsertCount, uploadCount, commits>>

\* ------------------------------------------- calculateJobExpiration calls
\* the arguments of a call: null, an unparseable string, or an instant
CalcDates == {PostedNull, PostedBad} \cup {PostedAt(t) : t \in 0..MaxCalcTime}

mainVars == <<reqVars, extVars, now, job_listings, resumes, resumeSeq, job_matches, ups, tasks, cam,
              camResult, sweep, upsertCount, uploadCount, commits>>

CalcCall(postedDate, createdAt) ==
    /\ calc' = [postedDate |-> postedDate, createdAt |-> createdAt,
                returned |-> FALSE, result |-> NoExpiration]
    /\ UNCHANGED mainVars

CalcReturn ==
    /\ ~calc.returned
    /\ calc' = [calc EXCEPT !.returned = TRUE,
                            !.result = calculateJobExpiration(calc.postedDate,
                                                              calc.createdAt)]
    /\ UNCHANGED mainVars

\* --------------------------------------------------------- specifications
Summaries == {NoText} \cup {SummaryOf(d) : d \in Descriptions}

\* Listing lifecycle: concurrent search handlers ingesting postings, the
\* expiry sweep and the clock.  The post-commit recalculation callbacks only
\* touch job_matches and stay queued here.
NextLife ==
    \/ \E r \in Reqs, row \in InputRows : UpsertStart(r, row)
    \/ \E r \in Reqs, fail \in BOOLEAN : UpsertRead(r, fail)
    \/ \E r \in Reqs, summary \in Summaries : UpsertSummarize(r, summary)
    \/ \E r \in Reqs, fail \in BOOLEAN : UpsertWrite(r, fail)
    \/ \E fail \in BOOLEAN : MarkExpired(fail)
    \/ Tick

SpecLife == Init /\ [][NextLife]_vars

\* calculateJobExpiration on its own, over every pair of arguments
NextCalc ==
    \/ \E p \in CalcDates, c \in CalcDates : CalcCall(p, c)
    \/ CalcReturn

SpecCalc == Init /\ [][NextCalc]_vars

\* the single search handler of the match-cache and match-read specifications takes a posting
Ingest(row) ==
    /\ upsertCount < MaxIngest
    /\ UpsertStart("r1", row)

\* ------------------------------------------------------- GET /api/matches
\* callback of SELECT id FROM resumes ORDER BY updated_at DESC LIMIT 1: an
\* error answers 500, no row answers {hasResume: false}; otherwise the
\* matches of that resume are queried.  Rows with equal updated_at come in
\* an order the statement does not fix.  History: the id of the latest resume
\* whose upload had answered by then, and whether every full recalculation
\* had resolved without a storage failure.
ReadResume(fail) ==
    /\ reader.pc = "idle"
    /\ \E resume \in IF resumes = {} THEN {NoRow} ELSE LatestResumes :
          reader' = IF fail THEN [IdleReader EXCEPT !.answer = "error"]
                    ELSE IF resume = NoRow
                    THEN [IdleReader EXCEPT !.answer = "noResume"]
                    ELSE [pc |-> "matches", resumeID |-> resume.id,
                          uploaded |-> IF cam.pc = "idle" THEN resumeSeq
                                       ELSE resumeSeq - 1,
                          settled |-> /\ cam.pc = "idle"
                                      /\ camResult.status = "resolved"
                                      /\ ~camResult.failed,
                          answer |-> "none", matches |-> {}]
    /\ UNCHANGED <<reqVars, replaced, saved_jobs, finder, calc, now, job_listings, resumes,
                   resumeSeq, job_matches, ups, tasks, cam, camResult, sweep,
                   upsertCount, uploadCount, commits>>

\* callback of SELECT job_id, matched_score, ... FROM job_matches WHERE
\* resume_id = ?: the rows are answered as a map from job_id
ReadMatches(fail) ==
    /\ reader.pc = "matches"
    /\ reader' = IF fail THEN [reader EXCEPT !.pc = "idle", !.answer = "error"]
                 ELSE [reader EXCEPT !.pc = "idle", !.answer = "matches",
                                     !.matches = {m \in job_matches :
                                                     m.resume_id = reader.resumeID}]
    /\ UNCHANGED <<reqVars, replaced, saved_jobs, finder, calc, now, job_listings, resumes,
                   resumeSeq, job_matches, ups, tasks, cam, camResult, sweep,
                   upsertCount, uploadCount, commits>>

\* the resume files a user holds
ResumeFiles == {"cv.pdf", "cv.docx"}

\* the user of the match-read specification uploads a resume file
Reupload(filename, rawText, fail) ==
    /\ uploadCount < MaxReuploads
    /\ Upload(filename, rawText, fail)

\* Match read path: one search handler ingesting a posting, uploads of two
\* resume files with their full recalculations, requests of the match list,
\* and the clock.
NextRead ==
    \/ \E row \in InputRows : Ingest(row)
    \/ \E fail \in BOOLEAN : UpsertRead("r1", fail)
    \/ \E summary \in Summaries : UpsertSummarize("r1", summary)
    \/ \E fail \in BOOLEAN : UpsertWrite("r1", fail)
    \/ \E f \in ResumeFiles, text \in ResumeTexts, fail \in BOOLEAN :
           Reupload(f, text, fail)
    \/ \E fail \in BOOLEAN : CamDelete(fail)
    \/ \E fail \in BOOLEAN : CamSelect(fail)
    \/ \E fail \in BOOLEAN : CamInsert(fail)
    \/ \E fail \in BOOLEAN : ReadResume(fail)
    \/ \E fail \in BOOLEAN : ReadMatches(fail)
    \/ Tick

SpecRead == Init /\ [][NextRead]_vars

\* ------------------------------------ the statements on table job_matches
\* Every caller's use of the two statements that write job_matches, with any
\* resume id, listing id and score: calculateAllMatches runs them for the
\* uploaded resume and each listing it read, recalculateMatches for the
\* latest resume and the listing just ingested.
MatchIds == 1..MaxMatchId

\* scores at the ends of the range of calculateMatchScore
Scores == {0, 100}

nonMatchVars == <<reqVars, reader, saved_jobs, finder, calc, now, job_listings, resumes,
                  resumeSeq, ups, tasks, cam, camResult, sweep, upsertCount,
                  uploadCount, commits>>

\* INSERT OR REPLACE INTO job_matches (resume_id, job_id, matched_score, ...)
StoreMatch(resumeID, jobID, score) ==
    /\ job_matches' = InsertOrReplaceMatch(job_matches, resumeID, jobID, score)
    /\ replaced' = (replaced \/ \E m \in job_matches :
                                    m.resume_id = resumeID /\ m.job_id = jobID)
    /\ UNCHANGED nonMatchVars

\* DELETE FROM job_matches WHERE resume_id = ?
ClearMatches(resumeID) ==
    /\ job_matches' = {x \in job_matches : x.resume_id # resumeID}
    /\ UNCHANGED replaced
    /\ UNCHANGED nonMatchVars

NextMatches ==
    \/ \E resumeID \in MatchIds, jobID \in MatchIds, score \in Scores :
           StoreMatch(resumeID, jobID, score)
    \/ \E resumeID \in MatchIds : ClearMatches(resumeID)

SpecMatches == Init /\ [][NextMatches]_vars

\* the user of the match-cache specification uploads a resume
UploadResume(filename, rawText, fail) ==
    /\ uploadCount < MaxUploads
    /\ Upload(filename, rawText, fail)

\* Match cache: one search handler ingesting postings, the resume upload with
\* its full recalculation, the post-commit recalculation, the sweep and the
\* clock.
Next ==
    \/ \E row \in InputRows : Ingest(row)
    \/ \E fail \in BOOLEAN : UpsertRead("r1", fail)
    \/ \E summary \in Summaries : UpsertSummarize("r1", summary)
    \/ \E fail \in BOOLEAN : UpsertWrite("r1", fail)
    \/ \E fail \in BOOLEAN : TaskLookup(fail)
    \/ \E fail \in BOOLEAN : TaskResume(fail)
    \/ \E fail \in BOOLEAN : MarkExpired(fail)
    \/ Tick
    \/ \E f \in Filenames, text \in ResumeTexts, fail \in BOOLEAN :
           UploadResume(f, text, fail)
    \/ \E fail \in BOOLEAN : CamDelete(fail)
    \/ \E fail \in BOOLEAN : CamSelect(fail)
    \/ \E fail \in BOOLEAN : CamInsert(fail)

Spec == Init /\ [][Next]_vars

\* ------------------------------------------------ texts of the finder page
\* A title or a company name is a sequence of tokens; a blank is a token of
\* its own.
Blank == " "

\* String.prototype.toLowerCase on the tokens that occur
LowerToken(tok) ==
    CASE tok = "Engineer" -> "engineer"
      [] tok = "Analyst" -> "analyst"
      [] tok = "Acme" -> "acme"
      [] tok = "ACME" -> "acme"
      [] tok = "A" -> "a"
      [] OTHER -> tok

toLowerCase(text) == [i \in 1..Len(text) |-> LowerToken(text[i])]

\* String.prototype.trim
RECURSIVE trim(_)
trim(text) ==
    IF text = << >> THEN text
    ELSE IF Head(text) = Blank THEN trim(Tail(text))
    ELSE IF text[Len(text)] = Blank THEN trim(SubSeq(text, 1, Len(text) - 1))
    ELSE text

\* (job.title || '').trim().toLowerCase()
NormalKey(text) == toLowerCase(trim(text))

\* savedJobs.some(...) of the batch filter of fetchJobs
isSaved(job, savedJobs) ==
    \E savedJob \in savedJobs :
        /\ NormalKey(savedJob.title) = NormalKey(job.title)
        /\ NormalKey(savedJob.company) = NormalKey(job.company)

Min(a, b) == IF a <= b THEN a ELSE b

\* ------------------------------------ GET /api/jobs, GET /api/jobs/count
\* ORDER BY created_at DESC; rows with equal created_at come in rowid order
RECURSIVE OrderByCreatedDesc(_)
OrderByCreatedDesc(rows) ==
    IF rows = {} THEN << >>
    ELSE LET first == CHOOSE x \in rows : \A y \in rows :
                          \/ x.created_at > y.created_at
                          \/ (x.created_at = y.created_at /\ x.id <= y.id)
         IN  <<first>> \o OrderByCreatedDesc(rows \ {first})

DefaultLimit == 50
LimitCap == 100

\* Math.min(parseInt(req.query.limit, 10) || 50, 100); 0 stands for an
\* absent, non-numeric or zero parameter
ListLimit(limit) == Min(IF limit = 0 THEN DefaultLimit ELSE limit, LimitCap)

\* variant: the statement without WHERE status = 'active'
ListJobs_AnyStatus(table, limit, offset) ==
    LET rows == OrderByCreatedDesc(table)
        last == IF ListLimit(limit) < 0 THEN Len(rows)
                ELSE Min(Len(rows), offset + ListLimit(limit))
    IN  SubSeq(rows, offset + 1, last)

\* SELECT ... FROM job_listings WHERE status = 'active' ORDER BY created_at
\* DESC LIMIT ? OFFSET ? without search term and filters; a negative LIMIT
\* is no limit
ListJobs(table, limit, offset) ==
    LET rows == OrderByCreatedDesc({x \in table : x.status = "active"})
        last == IF ListLimit(limit) < 0 THEN Len(rows)
                ELSE Min(Len(rows), offset + ListLimit(limit))
    IN  SubSeq(rows, offset + 1, last)

\* SELECT COUNT(*) FROM job_listings jl WHERE jl.status = 'active' AND NOT
\* EXISTS (SELECT 1 FROM saved_jobs sj WHERE sj.title = jl.title AND
\* sj.company = jl.company AND sj.status = 'saved')
CountJobs(table, saved) ==
    Cardinality({jl \in table :
        /\ jl.status = "active"
        /\ ~\E sj \in saved : /\ sj.title = jl.title
                              /\ sj.company = jl.company
                              /\ sj.status = "saved"})

\* INSERT INTO saved_jobs (title, company, ..., status) of POST /jobs, with
\* status || 'saved'
InsertSaved(saved, title, company, status) ==
    saved \cup {[id |-> 1 + Cardinality(saved), title |-> title,
                 company |-> company,
                 status |-> IF status = "" THEN "saved" ELSE status]}

\* ------------------------------------------------------ fetchJobs (finder)
REQUEST_SIZE == PAGE_SIZE * 5

otherVars == <<reqVars, reader, replaced, calc, now, resumes, resumeSeq, job_matches, ups, tasks,
               cam, camResult, sweep, upsertCount, uploadCount, commits>>

CeilDiv(a, b) == (a + b - 1) \div b

\* updatePaginationControls: the Next button is disabled on the last page
updatePaginationControls(f) ==
    LET totalPages == IF f.totalJobsCount # NoCount /\ f.totalJobsCount > 0
                      THEN CeilDiv(f.totalJobsCount, PAGE_SIZE)
                      ELSE f.currentPage
    IN  [f EXCEPT !.nextDisabled = (f.currentPage >= totalPages)]

\* updateDbCountLabel: unless preventCountRefetch is set, the count is requested
updateDbCountLabel(f) ==
    IF f.preventCountRefetch THEN f ELSE [f EXCEPT !.counting = TRUE]

\* variant: the loop without its limit on the number of attempts
LoopContinues_NoLimit(f) ==
    /\ Len(f.allUnsavedJobs) < (f.page - 1) * PAGE_SIZE + PAGE_SIZE
    /\ f.hasMoreData

\* the condition of the while loop of fetchJobs
LoopContinues(f) ==
    /\ Len(f.allUnsavedJobs) < (f.page - 1) * PAGE_SIZE + PAGE_SIZE
    /\ f.hasMoreData
    /\ f.fetchAttempts < maxFetchAttempts

\* variant: the page is cut from the start of what was collected
PageSlice_FromStart(collected, page) ==
    SubSeq(collected, 1, Min(Len(collected), page * PAGE_SIZE))

\* allUnsavedJobs.slice(targetOffset, targetOffset + PAGE_SIZE)
PageSlice(collected, page) ==
    SubSeq(collected, (page - 1) * PAGE_SIZE + 1, Min(Len(collected), page * PAGE_SIZE))

Ids(jobs) == [i \in 1..Len(jobs) |-> jobs[i].id]

\* the pages shown while paging forward from page 1, after this page
Browsed(f, page, shown) ==
    IF page = 1
    THEN [pages |-> <<Ids(shown)>>, complete |-> Len(shown) < PAGE_SIZE,
          clean |-> ~f.savedFailed]
    ELSE IF ~f.browse.complete /\ page = Len(f.browse.pages) + 1
    THEN [pages |-> Append(f.browse.pages, Ids(shown)),
          complete |-> Len(shown) < PAGE_SIZE,
          clean |-> f.browse.clean /\ ~f.savedFailed]
    ELSE f.browse

\* after the loop: the page is cut out and displayed, the pagination state
\* updated and the count requested
Finish(f) ==
    LET toDisplay == PageSlice(f.allUnsavedJobs, f.page)
        shown == [f EXCEPT !.pc = "idle", !.allJobs = toDisplay, !.cards = toDisplay,
                           !.currentPage = f.page,
                           !.lastPageCount = Len(toDisplay),
                           !.browse = Browsed(f, f.page, toDisplay)]
    IN  updateDbCountLabel(updatePaginationControls(shown))

\* the loop test: another batch is requested, or the loop is left
AfterLoopTest(f) ==
    IF LoopContinues(f)
    THEN [f EXCEPT !.pc = "batch", !.fetchAttempts = @ + 1]
    ELSE Finish(f)

\* fetchJobs(query, page) is entered: the loading message replaces the cards
\* (the cards of waiting save handlers leave the document) and the saved
\* jobs are requested
fetchJobs(f, page) ==
    [f EXCEPT !.pc = "saved", !.page = page, !.savedJobs = {},
              !.allUnsavedJobs = << >>, !.databaseOffset = 0,
              !.fetchAttempts = 0, !.hasMoreData = TRUE, !.cards = << >>,
              !.savedFailed = FALSE, !.error = FALSE,
              !.saving = {[s EXCEPT !.attached = FALSE] : s \in @}]

\* DOMContentLoaded in a fresh session: the count is requested and page 1
\* of the empty search fetched
LoadFinder ==
    /\ ~finder.loaded
    /\ finder' = fetchJobs(updateDbCountLabel([finder EXCEPT !.loaded = TRUE]), 1)
    /\ UNCHANGED <<saved_jobs, job_listings, otherVars>>

\* the search input is cleared: fetchJobs('', 1)
Search ==
    /\ finder.loaded
    /\ finder.pc = "idle"
    /\ finder' = fetchJobs(finder, 1)
    /\ UNCHANGED <<saved_jobs, job_listings, otherVars>>

\* click on Next: fetchJobs(currentQuery, currentPage + 1)
NextPage ==
    /\ finder.loaded
    /\ finder.pc = "idle"
    /\ ~finder.nextDisabled
    /\ finder' = fetchJobs(finder, finder.currentPage + 1)
    /\ UNCHANGED <<saved_jobs, job_listings, otherVars>>

\* click on Previous: fetchJobs(currentQuery, currentPage - 1)
PrevPage ==
    /\ finder.loaded
    /\ finder.pc = "idle"
    /\ finder.currentPage > 1
    /\ finder' = fetchJobs(finder, finder.currentPage - 1)
    /\ UNCHANGED <<saved_jobs, job_listings, otherVars>>

\* getSavedJobs answers: the rows of GET /jobs with status 'saved', or the
\* empty list when the request fails; then the loop is entered
GetSavedJobs(fail) ==
    /\ finder.pc = "saved"
    /\ finder' = AfterLoopTest(
           [finder EXCEPT !.savedJobs = IF fail THEN {}
                                        ELSE {job \in saved_jobs : job.status = "saved"},
                          !.savedFailed = fail])
    /\ UNCHANGED <<saved_jobs, job_listings, otherVars>>

\* GET /api/jobs?limit=REQUEST_SIZE&offset=databaseOffset answers: a failure
\* shows the error message; an empty batch ends the loop; otherwise the
\* unsaved jobs of the batch are collected, and a short batch ends the loop
FetchBatch(fail) ==
    /\ finder.pc = "batch"
    /\ LET f == finder
           batchJobs == ListJobs(job_listings, REQUEST_SIZE, f.databaseOffset)
           Unsaved(job) == ~isSaved(job, f.savedJobs)
           collected == [f EXCEPT !.allUnsavedJobs = @ \o SelectSeq(batchJobs, Unsaved),
                                  !.databaseOffset = @ + REQUEST_SIZE]
       IN  finder' =
             IF fail THEN [f EXCEPT !.pc = "idle", !.cards = << >>, !.error = TRUE]
             ELSE IF Len(batchJobs) = 0
             THEN Finish([f EXCEPT !.hasMoreData = FALSE])
             ELSE IF Len(batchJobs) < REQUEST_SIZE
             THEN Finish([collected EXCEPT !.hasMoreData = FALSE])
             ELSE AfterLoopTest(collected)
    /\ UNCHANGED <<saved_jobs, job_listings, otherVars>>

\* GET /api/jobs/count answers: the total is stored and shown, unless the
\* request failed
CountResponse(fail) ==
    /\ finder.counting
    /\ finder' =
         IF fail THEN [finder EXCEPT !.counting = FALSE]
         ELSE updatePaginationControls(
                  [finder EXCEPT !.counting = FALSE,
                                 !.totalJobsCount = CountJobs(job_listings, saved_jobs)])
    /\ UNCHANGED <<saved_jobs, job_listings, otherVars>>

\* ------------------------------------------------------- saving a listing
\* variant: the star handler does not look at the flag
isSavingJob_Ignored(f) == FALSE

\* if (isSavingJob) return false: the test at the head of the star handler
isSavingJob(f) == f.isSavingJob

\* click on the star of card i: unless a star save is running, isSavingJob
\* and preventCountRefetch are set and POST /jobs is sent
StarClick ==
    /\ finder.loaded
    /\ finder.clicks < MaxSaves
    /\ ~isSavingJob(finder)
    /\ \E i \in 1..Len(finder.cards) :
           finder' = [finder EXCEPT
               !.isSavingJob = TRUE, !.preventCountRefetch = TRUE,
               !.clicks = @ + 1,
               !.saving = @ \cup {[kind |-> "star", job |-> finder.cards[i],
                                   stage |-> "sent", attached |-> TRUE]}]
    /\ UNCHANGED <<saved_jobs, job_listings, otherVars>>

\* click on Save in the detail overlay of card i: preventCountRefetch is set
\* and POST /jobs is sent
OverlayClick ==
    /\ finder.loaded
    /\ finder.clicks < MaxSaves
    /\ ~\E s \in finder.saving : s.kind = "overlay"
    /\ \E i \in 1..Len(finder.cards) :
           finder' = [finder EXCEPT
               !.preventCountRefetch = TRUE,
               !.clicks = @ + 1,
               !.saving = @ \cup {[kind |-> "overlay", job |-> finder.cards[i],
                                   stage |-> "sent", attached |-> TRUE]}]
    /\ UNCHANGED <<saved_jobs, job_listings, otherVars>>

SaveOutcomes == {"stored", "rejected", "lost"}

\* POST /jobs of a waiting save: the server stores the saved job and answers,
\* or answers 500 without storing, or the request is lost
PostJob(outcome) ==
    /\ \E s \in finder.saving :
           /\ s.stage = "sent"
           /\ finder' = [finder EXCEPT
                  !.saving = (@ \ {s}) \cup {[s EXCEPT !.stage = outcome]}]
           /\ saved_jobs' = IF outcome = "stored"
                            THEN InsertSaved(saved_jobs, s.job.title, s.job.company,
                                             "saved")
                            ELSE saved_jobs
    /\ UNCHANGED <<job_listings, otherVars>>

\* the cards left after the handler of save s removed its own: the star
\* handler removes its card if still in the document, the overlay handler
\* every card whose title is the job's
CardsAfterSave(f, s) ==
    LET Stays(job) == IF s.kind = "star"
                      THEN ~(s.attached /\ job.id = s.job.id)
                      ELSE job.title # s.job.title
    IN  SelectSeq(f.cards, Stays)

\* saveJobToTracker returns or throws in a waiting handler. Any answer,
\* a 500 included, removes the card(s), lowers a positive total by one,
\* updates the pagination and starts the two-second timer; a lost request
\* raises the alert. The star handler clears isSavingJob in both cases, the
\* overlay handler clears preventCountRefetch when the request was lost.
SaveResponse ==
    /\ \E s \in finder.saving :
           /\ s.stage # "sent"
           /\ LET f == [finder EXCEPT
                           !.saving = @ \ {s},
                           !.isSavingJob = IF s.kind = "star" THEN FALSE ELSE @]
                  lowered == IF f.totalJobsCount # NoCount /\ f.totalJobsCount > 0
                             THEN f.totalJobsCount - 1
                             ELSE f.totalJobsCount
              IN  finder' =
                    IF s.stage = "lost"
                    THEN [f EXCEPT !.preventCountRefetch =
                                       IF s.kind = "overlay" THEN FALSE ELSE @]
                    ELSE updatePaginationControls(
                             [f EXCEPT !.cards = CardsAfterSave(f, s),
                                       !.totalJobsCount = lowered,
                                       !.timers = @ + 1])
    /\ UNCHANGED <<saved_jobs, job_listings, otherVars>>

\* a two-second timer of a save handler fires: preventCountRefetch is cleared
TimerFires ==
    /\ finder.timers > 0
    /\ finder' = [finder EXCEPT !.timers = @ - 1, !.preventCountRefetch = FALSE]
    /\ UNCHANGED <<saved_jobs, job_listings, otherVars>>

\* ----------------------------------------------- paging over a fixed store
\* the number of rows one page assembly can read
Cap == maxFetchAttempts * REQUEST_SIZE

\* a listing as upsertJobListing stores a posting without description and
\* posted date
Listed(i, title, company, created) ==
    [id |-> i, job_id |-> "c" \o ToString(i), title |-> title, company |-> company,
     description |-> NoText, description_summary |-> NoText,
     posted_date |-> PostedNull, created_at |-> created, status |-> "active",
     expiration_method |-> "created_at", expires_at |-> created + TwoWeeks]

RoleTitle(i) == <<"role", ToString(i)>>

\* listings 1..n with titles of their own, the last three ingested a week
\* after the others
Roles(n) == {Listed(i, RoleTitle(i), Employer, IF i > n - 3 THEN 1 ELSE 0) : i \in 1..n}

SavedRow(i, title, company, status) ==
    [id |-> i, title |-> title, company |-> company, status |-> status]

\* more listings than one page assembly reads, none saved
StoreDeep == [listings |-> Roles(Cap + PAGE_SIZE), saved |-> {}]

\* more than one batch of listings, every second one saved
StoreMixed ==
    [listings |-> Roles(REQUEST_SIZE + PAGE_SIZE + 1),
     saved |-> {SavedRow(i \div 2, RoleTitle(i), Employer, "saved") :
                   i \in {k \in 1..(REQUEST_SIZE + PAGE_SIZE + 1) : k % 2 = 0}}]

\* listings that differ from a saved job in case and blanks only, and a
\* saved job that has moved on to another status
StoreCase ==
    [listings |-> {Listed(1, <<"Engineer">>, <<"Acme">>, 0),
                   Listed(2, <<"engineer">>, <<"ACME", Blank>>, 0),
                   Listed(3, <<"Analyst">>, <<"Acme">>, 0),
                   Listed(4, <<"engineer">>, <<"Initech">>, 1)},
     saved |-> {SavedRow(1, <<"Engineer">>, <<"Acme">>, "saved"),
                SavedRow(2, <<"Analyst">>, <<"Acme">>, "applied")}]

\* more listings than one page assembly reads, every one of them saved
StoreSaved ==
    [listings |-> Roles(Cap + 1),
     saved |-> {SavedRow(i, RoleTitle(i), Employer, "saved") : i \in 1..(Cap + 1)}]

Stores == {StoreDeep, StoreMixed, StoreCase, StoreSaved}

InitPages ==
    /\ \E store \in Stores : /\ job_listings = store.listings
                             /\ saved_jobs = store.saved
    /\ now = 1
    /\ reader = IdleReader
    /\ replaced = FALSE
    /\ finder = IdleFinder
    /\ InitReq
    /\ calc = NoCalc
    /\ resumes = {}
    /\ resumeSeq = 0
    /\ job_matches = {}
    /\ ups = [r \in Reqs |-> IdleSlot]
    /\ tasks = {}
    /\ cam = IdleCam
    /\ camResult = NoResult
    /\ sweep = [at |-> NoTime, count |-> 0, expired |-> {}]
    /\ upsertCount = 0
    /\ uploadCount = 0
    /\ commits = [n |-> 0, resume |-> [j \in JobIds |-> 0]]

\* Paging: one finder page over a store that does not change
NextPages ==
    \/ LoadFinder
    \/ Search
    \/ NextPage
    \/ PrevPage
    \/ \E fail \in BOOLEAN : GetSavedJobs(fail)
    \/ \E fail \in BOOLEAN : FetchBatch(fail)
    \/ \E fail \in BOOLEAN : CountResponse(fail)

SpecPages == InitPages /\ [][NextPages]_vars

\* C34: one page assembly requests at most maxFetchAttempts batches, also
\* when every active listing is saved; it requests a further batch only after
\* a batch that was full (so neither empty nor short) and while the unsaved
\* listings collected do not yet fill the page asked for
C34_FetchesBounded ==
    [][/\ finder'.fetchAttempts <= maxFetchAttempts
       /\ (finder.fetchAttempts > 0 /\ finder'.fetchAttempts > finder.fetchAttempts) =>
              /\ finder.pc = "batch" /\ finder'.pc = "batch"
              /\ finder'.fetchAttempts = finder.fetchAttempts + 1
              /\ Len(ListJobs(job_listings, REQUEST_SIZE, finder.databaseOffset))
                     = REQUEST_SIZE
              /\ Len(finder'.allUnsavedJobs) < finder.page * PAGE_SIZE]_vars

\* over a store whose listings are all saved the assembly has ended after
\* maxFetchAttempts full batches, with nothing collected
C34_Witness ==
    /\ job_listings = StoreSaved.listings
    /\ saved_jobs = StoreSaved.saved
    /\ finder.loaded /\ finder.pc = "idle" /\ ~finder.error /\ ~finder.savedFailed
    /\ finder.fetchAttempts = maxFetchAttempts
    /\ finder.hasMoreData
    /\ finder.allUnsavedJobs = << >>

\* --------------------------------------------------- saving while browsing
\* two postings of one job (same title and company, ids of their own), a
\* posting of the same title at another company, and a fourth listing
StoreTwins ==
    [listings |-> {Listed(1, <<"Engineer">>, <<"Acme">>, 0),
                   Listed(2, <<"Engineer">>, <<"Acme">>, 0),
                   Listed(3, <<"Engineer">>, <<"Initech">>, 0),
                   Listed(4, <<"Analyst">>, <<"Acme">>, 1)},
     saved |-> {}]

InitSaves ==
    /\ job_listings = StoreTwins.listings
    /\ saved_jobs = StoreTwins.saved
    /\ now = 1
    /\ reader = IdleReader
    /\ replaced = FALSE
    /\ finder = IdleFinder
    /\ InitReq
    /\ calc = NoCalc
    /\ resumes = {}
    /\ resumeSeq = 0
    /\ job_matches = {}
    /\ ups = [r \in Reqs |-> IdleSlot]
    /\ tasks = {}
    /\ cam = IdleCam
    /\ camResult = NoResult
    /\ sweep = [at |-> NoTime, count |-> 0, expired |-> {}]
    /\ upsertCount = 0
    /\ uploadCount = 0
    /\ commits = [n |-> 0, resume |-> [j \in JobIds |-> 0]]

\* Saving: one finder page whose user browses and saves listings, over
\* listings that do not change
NextSaves ==
    \/ LoadFinder
    \/ PrevPage
    \/ NextPage
    \/ Search
    \/ \E fail \in BOOLEAN : GetSavedJobs(fail)
    \/ \E fail \in BOOLEAN : FetchBatch(fail)
    \/ \E fail \in BOOLEAN : CountResponse(fail)
    \/ StarClick
    \/ OverlayClick
    \/ \E outcome \in SaveOutcomes : PostJob(outcome)
    \/ SaveResponse
    \/ TimerFires

SpecSaves == InitSaves /\ [][NextSaves]_vars

\* the fetch of saveJobToTracker settles once it is sent, the awaiting
\* handler runs once it has settled, and a started timer fires; the user is
\* under no obligation to click or browse
SpecSavesFair ==
    /\ SpecSaves
    /\ WF_vars(\E outcome \in SaveOutcomes : PostJob(outcome))
    /\ WF_vars(SaveResponse)
    /\ WF_vars(TimerFires)

\* C37: when the handler of a star save resumes after a save that did not
\* succeed (the request was lost, or POST /jobs answered 500), the cards and
\* the local total are left as they were
C37_CardStaysOnFailure ==
    [][\A s \in finder.saving :
          (/\ s.kind = "star"
           /\ s.stage \in {"rejected", "lost"}
           /\ finder'.saving = finder.saving \ {s}) =>
              /\ finder'.cards = finder.cards
              /\ finder'.totalJobsCount = finder.totalJobsCount]_vars

\* Star saves: one finder page whose user reloads the list and saves
\* listings with the star button only
NextStar ==
    \/ LoadFinder
    \/ Search
    \/ \E fail \in BOOLEAN : GetSavedJobs(fail)
    \/ \E fail \in BOOLEAN : FetchBatch(fail)
    \/ \E fail \in BOOLEAN : CountResponse(fail)
    \/ StarClick
    \/ \E outcome \in SaveOutcomes : PostJob(outcome)
    \/ SaveResponse
    \/ TimerFires

SpecStar == InitSaves /\ [][NextStar]_vars

\* C39: at most one star save is in flight, and isSavingJob is set exactly
\* while one is: a click on a star while the flag is set starts no request
C39_OneStarSave ==
    LET stars == {s \in finder.saving : s.kind = "star"}
    IN  /\ Cardinality(stars) <= 1
        /\ finder.isSavingJob <=> stars # {}

\* a star save is in flight while another card is on display and the user
\* can still click
C39_Witness ==
    /\ finder.isSavingJob
    /\ \E s \in finder.saving : s.kind = "star" /\ s.stage = "sent"
    /\ Len(finder.cards) > 1
    /\ finder.clicks < MaxSaves

\* C38: whenever preventCountRefetch is set, it is cleared later
C38_FlagIsReset ==
    finder.preventCountRefetch ~> ~finder.preventCountRefetch

\* ------------------------------------------------- login with a 2FA code
authVars == <<listed, search, upload, scored, norm, runs, calls, extVars, calc, now,
              job_listings, resumes, resumeSeq, job_matches, ups, tasks, cam,
              camResult, sweep, upsertCount, uploadCount, commits>>

\* expiresAt: Date.now() + 5 * 60 * 1000, in units of the model's clock
CodeLifetime == 2

\* the values Math.floor(100000 + Math.random() * 900000).toString() takes
Codes == {"100000", "999999"}

Emails == {"", "ann@x", "bob@x", "cy@x", "nobody@x"}

\* SELECT id ... FROM users WHERE email = ?; 0 when there is no such row
UserOf(email) ==
    CASE email = "ann@x" -> 1
      [] email = "bob@x" -> 2
      [] email = "cy@x" -> 3
      [] OTHER -> 0

two_factor_enabled(u) == u \in {1, 2}

Answer(route, status, userId, code, authenticated) ==
    [route |-> route, status |-> status, userId |-> userId, code |-> code,
     authenticated |-> authenticated]

\* time passes
AuthTick ==
    /\ auth.clock < MaxAuthTime
    /\ auth' = [auth EXCEPT !.clock = @ + 1]
    /\ UNCHANGED authVars

\* POST /api/auth/login: password "" is an absent one, "right" the one
\* bcrypt.compare accepts; code is the value Math.random() yields
Login(email, password, code, err) ==
    /\ Len(auth.logins) < MaxLogins
    /\ LET u == UserOf(email)
           reply(status, ok) == Answer("login", status, u, "", ok)
       IN  auth' =
             IF email = "" \/ password = "" THEN [auth EXCEPT !.answer = reply(400, FALSE)]
             ELSE IF err THEN [auth EXCEPT !.answer = reply(500, FALSE)]
             ELSE IF u = 0 \/ password # "right"
             THEN [auth EXCEPT !.answer = reply(401, FALSE)]
             ELSE IF two_factor_enabled(u)
             THEN [auth EXCEPT
                     !.twoFactorCodes[u] =
                         [code |-> code, expiresAt |-> auth.clock + CodeLifetime,
                          login |-> Len(auth.logins) + 1],
                     !.logins = Append(@, [userId |-> u, code |-> code, passed |-> 0]),
                     !.answer = reply(200, FALSE)]
             ELSE [auth EXCEPT !.answer = reply(200, TRUE)]
    /\ UNCHANGED authVars

\* variant: delete leaves the entry in the map
Delete_Keeps(map, userId) == map

\* twoFactorCodes.delete(userId)
Delete(map, userId) == [map EXCEPT ![userId] = NoCode]

\* POST /api/auth/2fa/verify: userId 0 and code "" are absent fields
Verify(userId, code) ==
    /\ LET stored == auth.twoFactorCodes[userId]
           reply(status, ok) == Answer("verify", status, userId, code, ok)
       IN  auth' =
             IF userId = 0 \/ code = "" THEN [auth EXCEPT !.answer = reply(400, FALSE)]
             ELSE IF stored = NoCode THEN [auth EXCEPT !.answer = reply(400, FALSE)]
             ELSE IF auth.clock > stored.expiresAt
             THEN [auth EXCEPT !.twoFactorCodes = Delete(@, userId),
                               !.answer = reply(401, FALSE)]
             ELSE IF stored.code # code THEN [auth EXCEPT !.answer = reply(401, FALSE)]
             ELSE [auth EXCEPT !.twoFactorCodes = Delete(@, userId),
                               !.logins[stored.login].passed = @ + 1,
                               !.answer = reply(200, TRUE)]
    /\ UNCHANGED authVars

NextAuth ==
    \/ AuthTick
    \/ \E email \in Emails, password \in {"", "right", "wrong"}, code \in Codes,
          err \in BOOLEAN : Login(email, password, code, err)
    \/ \E userId \in UserIds \cup {0}, code \in Codes \cup {""} : Verify(userId, code)

SpecAuth == Init /\ [][NextAuth]_vars

\* C40: no stored code passes more than one verification; after a
\* verification that succeeded or that found the code expired, no code is
\* stored for the user, so that a further verification is rejected until a
\* login stores a new one
C40_CodeUsedOnce ==
    /\ \A i \in 1..Len(auth.logins) : auth.logins[i].passed <= 1
    /\ \A u \in UserIds :
          auth.twoFactorCodes[u] # NoCode =>
              auth.logins[auth.twoFactorCodes[u].login].passed = 0
    /\ (auth.answer.route = "verify" /\ auth.answer.authenticated) =>
          auth.twoFactorCodes[auth.answer.userId] = NoCode

\* a code has passed its verification and the same code, sent again for the
\* same user, was rejected
C40_Witness ==
    \E i \in 1..Len(auth.logins) :
        /\ auth.logins[i].passed = 1
        /\ auth.answer = Answer("verify", 400, auth.logins[i].userId,
                                auth.logins[i].code, FALSE)
        /\ auth.twoFactorCodes[auth.logins[i].userId] = NoCode

\* ---------------------------------------------- overlapping fetchJobs calls
callVars == <<listed, search, upload, scored, norm, auth, runs, extVars, calc, now,
              job_listings, resumes, resumeSeq, job_matches, ups, tasks, cam,
              camResult, sweep, upsertCount, uploadCount, commits>>

\* what the user types into the search input
Terms == {"engineer", "acme"}

\* column LIKE '%term%' (case-insensitive for ASCII letters)
Like(text, term) == \E i \in 1..Len(text) : LowerToken(text[i]) = LowerToken(term)

\* AND (title LIKE ? OR company LIKE ? OR location LIKE ?), when q is given;
\* the listings here have no location
Found(table, q) ==
    IF q = "" THEN table
    ELSE {jl \in table : Like(jl.title, q) \/ Like(jl.company, q)}

\* the locals of a fetchJobs call that awaits getSavedJobs
NewCall(query, page) ==
    [query |-> query, page |-> page, pc |-> "saved", savedJobs |-> {},
     allUnsavedJobs |-> << >>, databaseOffset |-> 0, fetchAttempts |-> 0,
     hasMoreData |-> TRUE, toDisplay |-> << >>]

\* fetchJobs(query, page) is called: the loading message is shown and the
\* call starts, whatever calls are in flight
Issue(c, query, page) ==
    [c EXCEPT !.flight = Append(@, NewCall(query, page)), !.view = "loading"]

InFlight(c) == {k \in 1..Len(c.flight) : c.flight[k].pc \in {"saved", "batch"}}

\* nextBtn.disabled as updatePaginationControls left it
NextDisabled(c) ==
    c.currentPage >= (IF c.totalJobsCount > 0
                      THEN CeilDiv(c.totalJobsCount, PAGE_SIZE)
                      ELSE c.currentPage)

\* DOMContentLoaded: updateDbCountLabel('') and fetchJobs('')
CallLoad ==
    /\ calls.view = "blank"
    /\ calls' = Issue([calls EXCEPT !.counting = {""}], "", 1)
    /\ UNCHANGED callVars

\* input event with nothing but blanks in the field: fetchJobs('', 1) at once
\* (a pending debounce timer is left running)
InputCleared ==
    /\ calls.view # "blank"
    /\ Len(calls.flight) < MaxCalls
    /\ calls' = Issue(calls, "", 1)
    /\ UNCHANGED callVars

\* input event with a term: the debounce timer is set anew
InputTyped(term) ==
    /\ calls.view # "blank"
    /\ Len(calls.flight) < MaxCalls
    /\ calls' = [calls EXCEPT !.debounce = term]
    /\ UNCHANGED callVars

\* the debounce timer fires: fetchJobs(term, 1)
DebounceFires ==
    /\ calls.debounce # ""
    /\ Len(calls.flight) < MaxCalls
    /\ calls' = Issue([calls EXCEPT !.debounce = ""], calls.debounce, 1)
    /\ UNCHANGED callVars

\* click on Next: fetchJobs(currentQuery, currentPage + 1)
NextClick ==
    /\ calls.view # "blank"
    /\ ~NextDisabled(calls)
    /\ Len(calls.flight) < MaxCalls
    /\ calls' = Issue(calls, calls.currentQuery, calls.currentPage + 1)
    /\ UNCHANGED callVars

\* click on Previous: fetchJobs(currentQuery, currentPage - 1), on a page
\* after the first
PrevClick ==
    /\ calls.view # "blank"
    /\ calls.currentPage > 1
    /\ Len(calls.flight) < MaxCalls
    /\ calls' = Issue(calls, calls.currentQuery, calls.currentPage - 1)
    /\ UNCHANGED callVars

\* call k leaves its loop: its page is displayed, currentPage and
\* currentQuery are set to its arguments and the count is requested
CallFinish(k, c) ==
    LET toDisplay == PageSlice(c.allUnsavedJobs, c.page)
    IN  [calls EXCEPT !.flight[k] = [c EXCEPT !.pc = "done", !.toDisplay = toDisplay],
                      !.allJobs = toDisplay, !.view = "jobs",
                      !.currentPage = c.page, !.currentQuery = c.query,
                      !.counting = @ \cup {c.query}]

\* the loop test of call k
CallLoopTest(k, c) ==
    IF LoopContinues(c)
    THEN [calls EXCEPT !.flight[k] = [c EXCEPT !.pc = "batch", !.fetchAttempts = @ + 1]]
    ELSE CallFinish(k, c)

\* getSavedJobs answers call k
CallSaved(k, fail) ==
    /\ k \in 1..Len(calls.flight)
    /\ calls.flight[k].pc = "saved"
    /\ calls' = CallLoopTest(k,
           [calls.flight[k] EXCEPT !.savedJobs =
               IF fail THEN {} ELSE {job \in saved_jobs : job.status = "saved"}])
    /\ UNCHANGED callVars

\* GET /api/jobs?q=query&limit=REQUEST_SIZE&offset=databaseOffset answers
\* call k; a failure shows the error message
CallBatch(k, fail) ==
    /\ k \in 1..Len(calls.flight)
    /\ calls.flight[k].pc = "batch"
    /\ LET c == calls.flight[k]
           batchJobs == ListJobs(Found(job_listings, c.query), REQUEST_SIZE,
                                 c.databaseOffset)
           Unsaved(job) == ~isSaved(job, c.savedJobs)
           collected == [c EXCEPT !.allUnsavedJobs = @ \o SelectSeq(batchJobs, Unsaved),
                                  !.databaseOffset = @ + REQUEST_SIZE]
       IN  calls' =
             IF fail
             THEN [calls EXCEPT !.flight[k] = [c EXCEPT !.pc = "failed"],
                                !.view = "error"]
             ELSE IF Len(batchJobs) = 0
             THEN CallFinish(k, [c EXCEPT !.hasMoreData = FALSE])
             ELSE IF Len(batchJobs) < REQUEST_SIZE
             THEN CallFinish(k, [collected EXCEPT !.hasMoreData = FALSE])
             ELSE CallLoopTest(k, collected)
    /\ UNCHANGED callVars

\* GET /api/jobs/count?q=query answers: the total is stored, unless the
\* request failed
CallCount(q, fail) ==
    /\ q \in calls.counting
    /\ calls' = [calls EXCEPT
           !.counting = @ \ {q},
           !.totalJobsCount = IF fail THEN @
                              ELSE CountJobs(Found(job_listings, q), saved_jobs)]
    /\ UNCHANGED callVars

\* Overlap: one finder page whose user types, clears the input and pages
\* while earlier fetchJobs calls are in flight, over a store that does not
\* change
NextCalls ==
    \/ CallLoad
    \/ InputCleared
    \/ \E term \in Terms : InputTyped(term)
    \/ DebounceFires
    \/ NextClick
    \/ PrevClick
    \/ \E k \in 1..MaxCalls, fail \in BOOLEAN : CallSaved(k, fail)
    \/ \E k \in 1..MaxCalls, fail \in BOOLEAN : CallBatch(k, fail)
    \/ \E q \in Terms \cup {""}, fail \in BOOLEAN : CallCount(q, fail)

SpecCalls == InitSaves /\ [][NextCalls]_vars

\* C36: once no fetchJobs call is in flight and no debounce timer pending,
\* and the call issued last has displayed its page, the page on display,
\* currentPage and currentQuery are those of the call issued last
C36_LatestCallWins ==
    LET n == Len(calls.flight)
    IN  (/\ n > 0
         /\ InFlight(calls) = {}
         /\ calls.debounce = ""
         /\ calls.flight[n].pc = "done") =>
            /\ calls.currentPage = calls.flight[n].page
            /\ calls.currentQuery = calls.flight[n].query
            /\ calls.allJobs = calls.flight[n].toDisplay

\* ------------------------------------------------ browsing during ingestion
\* one listing more than a batch holds; all but three listings of the first
\* batch are saved (in list order the first two and the last one are not), so
\* that page 2 needs the second batch
StoreFeed ==
    [listings |-> Roles(REQUEST_SIZE + 1),
     saved |-> {SavedRow(i, RoleTitle(i), Employer, "saved") :
                   i \in 1..(REQUEST_SIZE - 4)}
               \cup {SavedRow(REQUEST_SIZE - 3, RoleTitle(REQUEST_SIZE + 1), Employer,
                              "saved")}]

\* the posting the search handler ingests
FeedRows == {Posting("j1", T1, Employer, D1, PostedAt(0))}

\* the store at the time its older listings are due to expire
InitFeed ==
    /\ job_listings = StoreFeed.listings
    /\ saved_jobs = StoreFeed.saved
    /\ now = TwoWeeks
    /\ reader = IdleReader
    /\ replaced = FALSE
    /\ finder = IdleFinder
    /\ InitReq
    /\ calc = NoCalc
    /\ resumes = {}
    /\ resumeSeq = 0
    /\ job_matches = {}
    /\ ups = [r \in Reqs |-> IdleSlot]
    /\ tasks = {}
    /\ cam = IdleCam
    /\ camResult = NoResult
    /\ sweep = [at |-> NoTime, count |-> 0, expired |-> {}]
    /\ upsertCount = 0
    /\ uploadCount = 0
    /\ commits = [n |-> 0, resume |-> [j \in JobIds |-> 0]]

\* Feed: one finder page browsing while a search handler ingests a posting
\* and the expiry sweep runs.  The post-commit recalculation callbacks only
\* touch job_matches and stay queued here.
NextFeed ==
    \/ LoadFinder
    \/ PrevPage
    \/ NextPage
    \/ Search
    \/ \E fail \in BOOLEAN : GetSavedJobs(fail)
    \/ \E fail \in BOOLEAN : FetchBatch(fail)
    \/ \E fail \in BOOLEAN : CountResponse(fail)
    \/ \E row \in FeedRows : Ingest(row)
    \/ \E fail \in BOOLEAN : UpsertRead("r1", fail)
    \/ \E summary \in Summaries : UpsertSummarize("r1", summary)
    \/ \E fail \in BOOLEAN : UpsertWrite("r1", fail)
    \/ \E fail \in BOOLEAN : MarkExpired(fail)

SpecFeed == InitFeed /\ [][NextFeed]_vars

\* ------------------------------------------- calculateMatchScore calls
\* resume texts: no text, texts with some keywords, with every keyword of
\* the job texts, with none
ScoredResumes ==
    {NoText, R1, R2, <<"gardening">>,
     <<"python", "java", "react", "git", "agile", "teamwork", "senior",
       "bachelor", "master", "phd">>}

\* job descriptions: none, the descriptions of the postings, one with soft
\* skills only, one with keywords of every axis
ScoredDescriptions ==
    {NoText, D1, D2, <<"agile", "teamwork">>,
     <<"python", "java", "react", "git", "agile", "senior", "bachelor",
       "master", "phd">>}

\* job titles: the default '', and the titles of the postings
ScoredTitles == {NoText} \cup Titles

scoreVars == <<listed, search, upload, auxVars, extVars, calc, now, job_listings, resumes,
               resumeSeq, job_matches, ups, tasks, cam, camResult, sweep,
               upsertCount, uploadCount, commits>>

ScoreCall(resumeText, jobDesc, jobTitle) ==
    /\ scored' = [NoScore EXCEPT !.resumeText = resumeText, !.jobDesc = jobDesc,
                                 !.jobTitle = jobTitle]
    /\ UNCHANGED scoreVars

ScoreReturn ==
    /\ ~scored.returned
    /\ scored' = [scored EXCEPT !.returned = TRUE,
                                !.result = calculateMatchScore(scored.resumeText,
                                               scored.jobDesc, scored.jobTitle)]
    /\ UNCHANGED scoreVars

\* calculateMatchScore on its own, over every triple of arguments
NextScore ==
    \/ \E r \in ScoredResumes, d \in ScoredDescriptions, t \in ScoredTitles :
           ScoreCall(r, d, t)
    \/ ScoreReturn

SpecScore == Init /\ [][NextScore]_vars

\* ------------------------------------------------- normalizeText calls
\* A string is a sequence of characters: a capital and a small letter, a
\* digit, a character the pattern keeps, two white space characters and a
\* character the pattern replaces.
Chars == {"A", "b", "7", "#", " ", "\t", "-"}

\* \s
WhiteSpace == {" ", "\t"}

\* [a-z0-9\s\+\#\.]
KeptChars == {"a", "b", "7", "+", "#", "."} \cup WhiteSpace

\* .replace(/[^a-z0-9\s\+\#\.]/g, ' ')
ReplaceSpecial(chars) ==
    [i \in 1..Len(chars) |-> IF chars[i] \in KeptChars THEN chars[i] ELSE " "]

RECURSIVE SkipWhiteSpace(_)
SkipWhiteSpace(chars) ==
    IF chars # << >> /\ Head(chars) \in WhiteSpace THEN SkipWhiteSpace(Tail(chars))
    ELSE chars

\* .replace(/\s+/g, ' ')
RECURSIVE CollapseWhiteSpace(_)
CollapseWhiteSpace(chars) ==
    IF chars = << >> THEN chars
    ELSE IF Head(chars) \in WhiteSpace
    THEN <<" ">> \o CollapseWhiteSpace(SkipWhiteSpace(chars))
    ELSE <<Head(chars)>> \o CollapseWhiteSpace(Tail(chars))

\* variant: the ends are trimmed before the special characters are replaced
normalizeText_TrimsFirst(text) ==
    IF text.kind # "string" \/ text.chars = << >> THEN << >>
    ELSE CollapseWhiteSpace(ReplaceSpecial(toLowerCase(trim(text.chars))))

\* normalizeText: '' for a falsy or non-string argument; otherwise lower
\* case, special characters to blanks, runs of white space to one blank,
\* both ends trimmed (only blanks are left to trim by then)
normalizeText(text) ==
    IF text.kind # "string" \/ text.chars = << >> THEN << >>
    ELSE trim(CollapseWhiteSpace(ReplaceSpecial(toLowerCase(text.chars))))

Str(chars) == [kind |-> "string", chars |-> chars]

\* the arguments of a call: null, a number, or a string of up to MaxTextLen
\* characters
NormArgs ==
    {[kind |-> "null", chars |-> << >>], [kind |-> "number", chars |-> << >>]}
        \cup {Str(c) : c \in UNION {[1..k -> Chars] : k \in 0..MaxTextLen}}

normVars == <<listed, search, upload, scored, auth, runs, calls, extVars, calc, now, job_listings,
              resumes, resumeSeq, job_matches, ups, tasks, cam, camResult, sweep,
              upsertCount, uploadCount, commits>>

NormCall(text) ==
    /\ norm.pc = "idle"
    /\ norm' = [NoNorm EXCEPT !.pc = "called", !.text = text]
    /\ UNCHANGED normVars

NormReturn ==
    /\ norm.pc = "called"
    /\ norm' = [norm EXCEPT !.pc = "returned", !.result = normalizeText(norm.text)]
    /\ UNCHANGED normVars

\* the result is normalized once more
NormAgain ==
    /\ norm.pc = "returned"
    /\ norm' = [norm EXCEPT !.pc = "twice", !.again = normalizeText(Str(norm.result))]
    /\ UNCHANGED normVars

\* normalizeText on its own, over every argument
NextNorm ==
    \/ \E text \in NormArgs : NormCall(text)
    \/ NormReturn
    \/ NormAgain

SpecNorm == Init /\ [][NextNorm]_vars

\* -------------------------------------------------- GET /api/jobs/search
\* a posting of the provider without job_id
Anonymous == Posting("", T2, Employer, D2, PostedNull)

\* what data.data of a provider answer can hold
Batches ==
    {<< >>,
     <<Posting("j1", T2, Employer, D2, PostedAt(0))>>,
     <<Posting("j1", T1, Employer, D1, PostedAt(0)),
       Posting("j2", T1, Employer, D1, PostedAt(1))>>,
     <<Posting("j1", T2, Employer, NoText, PostedBad), Anonymous,
       Posting("j2", T1, Employer, D1, PostedAt(1))>>}

\* the postings of a batch that the loop upserts
Upsertable(batch) == {i \in 1..Len(batch) : batch[i].job_id # ""}

searchVars == <<listed, upload, scored, auxVars, extVars, calc, now, job_listings, resumes,
                resumeSeq, job_matches, ups, tasks, cam, camResult, sweep,
                upsertCount, uploadCount, commits>>

\* the handler answers with a status and a body
Respond(s, status, body) ==
    [s EXCEPT !.pc = "done", !.status = status, !.body = body]

\* the request arrives: 400 without the query parameter, 500 without the
\* API key, otherwise the provider is called
SearchRequest(hasQuery, hasKey) ==
    /\ search.pc \in {"idle", "done"}
    /\ search' = IF ~hasQuery THEN Respond(IdleSearch, 400, << >>)
                 ELSE IF ~hasKey THEN Respond(IdleSearch, 500, << >>)
                 ELSE [IdleSearch EXCEPT !.pc = "provider", !.calls = 1]
    /\ UNCHANGED searchVars

ProviderOutcomes == {"ok", "non2xx", "error"}

\* variant: a failed provider call is repeated once
ProviderAnswers_Retries(outcome, batch) ==
    /\ search.pc = "provider"
    /\ Cardinality(Upsertable(batch)) <= MaxUpserts - upsertCount
    /\ search' = IF outcome # "ok" /\ search.calls < 2
                 THEN [search EXCEPT !.calls = @ + 1]
                 ELSE IF outcome = "error" THEN Respond(search, 500, << >>)
                 ELSE IF outcome = "non2xx" THEN Respond(search, 502, << >>)
                 ELSE IF batch = << >> THEN Respond(search, 200, << >>)
                 ELSE [search EXCEPT !.pc = "loop", !.jobs = batch, !.i = 1]
    /\ UNCHANGED searchVars

\* the provider call settles: a rejected fetch is caught (500), a non-2xx
\* answer gives 502, an answer without postings gives an empty 200;
\* otherwise the loop over the postings begins
ProviderAnswers(outcome, batch) ==
    /\ search.pc = "provider"
    /\ Cardinality(Upsertable(batch)) <= MaxUpserts - upsertCount
    /\ search' = IF outcome = "error" THEN Respond(search, 500, << >>)
                 ELSE IF outcome = "non2xx" THEN Respond(search, 502, << >>)
                 ELSE IF batch = << >> THEN Respond(search, 200, << >>)
                 ELSE [search EXCEPT !.pc = "loop", !.jobs = batch, !.i = 1]
    /\ UNCHANGED searchVars

\* the loop reaches posting i: after the last one all fetched postings are
\* answered; a posting without job_id is passed over; otherwise
\* upsertJobListing is entered and awaited
SearchLoop ==
    /\ search.pc = "loop"
    /\ IF search.i > Len(search.jobs)
       THEN /\ search' = Respond(search, 200, search.jobs)
            /\ UNCHANGED searchVars
       ELSE IF search.jobs[search.i].job_id = ""
       THEN /\ search' = [search EXCEPT !.i = @ + 1]
            /\ UNCHANGED searchVars
       ELSE /\ search' = [search EXCEPT !.pc = "upsert",
                                        !.attempted = @ \cup {search.i}]
            /\ upsertJobListing("r1", search.jobs[search.i])

\* variant: the loop is left when the upsert of a posting failed
AfterUpsert_Aborts(s) ==
    IF ListingByJobId(s.jobs[s.i].job_id) = NoRow
    THEN [s EXCEPT !.pc = "loop", !.i = Len(s.jobs) + 1]
    ELSE [s EXCEPT !.pc = "loop", !.i = @ + 1]

\* the awaited upsert settled, resolved or rejected (catch (e) {}): the loop
\* goes on with the next posting
AfterUpsert(s) == [s EXCEPT !.pc = "loop", !.i = @ + 1]

SearchResume ==
    /\ search.pc = "upsert"
    /\ ups["r1"].pc = "idle"
    /\ search' = AfterUpsert(search)
    /\ UNCHANGED searchVars

\* a store with a resume and no listing
InitSearch ==
    /\ job_listings = {}
    /\ saved_jobs = {}
    /\ now = 1
    /\ reader = IdleReader
    /\ replaced = FALSE
    /\ finder = IdleFinder
    /\ InitReq
    /\ calc = NoCalc
    /\ resumes = {[id |-> 1, filename |-> "cv.pdf", raw_text |-> R1, updated_at |-> 0]}
    /\ resumeSeq = 1
    /\ job_matches = {}
    /\ ups = [r \in Reqs |-> IdleSlot]
    /\ tasks = {}
    /\ cam = IdleCam
    /\ camResult = NoResult
    /\ sweep = [at |-> NoTime, count |-> 0, expired |-> {}]
    /\ upsertCount = 0
    /\ uploadCount = 0
    /\ commits = [n |-> 0, resume |-> [j \in JobIds |-> 0]]

\* Search: one search request after the other, each with its provider call,
\* its upserts and their post-commit recalculation
NextSearch ==
    \/ \E hasQuery \in BOOLEAN, hasKey \in BOOLEAN : SearchRequest(hasQuery, hasKey)
    \/ \E outcome \in ProviderOutcomes, batch \in Batches : ProviderAnswers(outcome, batch)
    \/ SearchLoop
    \/ SearchResume
    \/ \E fail \in BOOLEAN : UpsertRead("r1", fail)
    \/ \E summary \in Summaries : UpsertSummarize("r1", summary)
    \/ \E fail \in BOOLEAN : UpsertWrite("r1", fail)
    \/ \E fail \in BOOLEAN : TaskResume(fail)
    \/ \E fail \in BOOLEAN : TaskLookup(fail)

SpecSearch == InitSearch /\ [][NextSearch]_vars

\* ------------------------------------------- the list and count endpoints
\* values of the limit parameter: negative, absent (or zero, or not a
\* number), small, the cap, above the cap
Limits == {-1, 0, 1, LimitCap, LimitCap + 1}

Offsets == {0, 1, LimitCap}

\* GET /api/jobs?limit=..&offset=.. without search term and filters: the
\* rows the statement selects, or 500 when it fails
GetJobs(limit, offset, fail) ==
    /\ listed' = IF fail
                 THEN [NoAnswer EXCEPT !.kind = "list", !.limit = limit,
                                       !.offset = offset, !.status = 500]
                 ELSE [NoAnswer EXCEPT !.kind = "list", !.limit = limit,
                                       !.offset = offset, !.status = 200,
                                       !.jobs = ListJobs(job_listings, limit, offset)]
    /\ UNCHANGED <<search, upload, scored, auxVars, extVars, calc, now, job_listings, resumes,
                   resumeSeq, job_matches, ups, tasks, cam, camResult, sweep,
                   upsertCount, uploadCount, commits>>

\* GET /api/jobs/count without search term and filters
GetCount(fail) ==
    /\ listed' = IF fail
                 THEN [NoAnswer EXCEPT !.kind = "count", !.status = 500]
                 ELSE [NoAnswer EXCEPT !.kind = "count", !.status = 200,
                                       !.total = CountJobs(job_listings, saved_jobs)]
    /\ UNCHANGED <<search, upload, scored, auxVars, extVars, calc, now, job_listings, resumes,
                   resumeSeq, job_matches, ups, tasks, cam, camResult, sweep,
                   upsertCount, uploadCount, commits>>

\* one listing more than the cap of the list endpoint, nothing saved
StoreWide == [listings |-> Roles(LimitCap + 1), saved |-> {}]

InitList ==
    /\ job_listings = StoreWide.listings
    /\ saved_jobs = StoreWide.saved
    /\ now = 1
    /\ reader = IdleReader
    /\ replaced = FALSE
    /\ finder = IdleFinder
    /\ InitReq
    /\ calc = NoCalc
    /\ resumes = {}
    /\ resumeSeq = 0
    /\ job_matches = {}
    /\ ups = [r \in Reqs |-> IdleSlot]
    /\ tasks = {}
    /\ cam = IdleCam
    /\ camResult = NoResult
    /\ sweep = [at |-> NoTime, count |-> 0, expired |-> {}]
    /\ upsertCount = 0
    /\ uploadCount = 0
    /\ commits = [n |-> 0, resume |-> [j \in JobIds |-> 0]]

\* Listing: requests to the list and count endpoints over a large store,
\* with the expiry sweep and the clock
NextList ==
    \/ \E limit \in Limits, offset \in Offsets, fail \in BOOLEAN :
           GetJobs(limit, offset, fail)
    \/ \E fail \in BOOLEAN : GetCount(fail)
    \/ \E fail \in BOOLEAN : MarkExpired(fail)
    \/ Tick

SpecList == InitList /\ [][NextList]_vars

\* ----------------------------------------- expiry, listing and matching
\* a listing with a description
Described(i, title, description, created) ==
    [Listed(i, title, Employer, created) EXCEPT !.description = description]

\* two listings due to expire at TwoWeeks and a younger one
StoreAging ==
    [listings |-> {Described(1, T1, D1, 0), Described(2, T2, D2, 0),
                   Described(3, T1, D2, 1)},
     saved |-> {}]

InitActive ==
    /\ job_listings = StoreAging.listings
    /\ saved_jobs = StoreAging.saved
    /\ now = 1
    /\ reader = IdleReader
    /\ replaced = FALSE
    /\ finder = IdleFinder
    /\ InitReq
    /\ calc = NoCalc
    /\ resumes = {}
    /\ resumeSeq = 0
    /\ job_matches = {}
    /\ ups = [r \in Reqs |-> IdleSlot]
    /\ tasks = {}
    /\ cam = IdleCam
    /\ camResult = NoResult
    /\ sweep = [at |-> NoTime, count |-> 0, expired |-> {}]
    /\ upsertCount = 0
    /\ uploadCount = 0
    /\ commits = [n |-> 0, resume |-> [j \in JobIds |-> 0]]

\* Active: the expiry sweep and the clock, with requests to the list and
\* count endpoints and a resume upload with its full recalculation
NextActive ==
    \/ \E fail \in BOOLEAN : GetJobs(0, 0, fail)
    \/ \E fail \in BOOLEAN : GetCount(fail)
    \/ \E fail \in BOOLEAN : MarkExpired(fail)
    \/ Tick
    \/ \E f \in Filenames, text \in ResumeTexts, fail \in BOOLEAN :
           UploadResume(f, text, fail)
    \/ \E fail \in BOOLEAN : CamDelete(fail)
    \/ \E fail \in BOOLEAN : CamSelect(fail)
    \/ \E fail \in BOOLEAN : CamInsert(fail)

SpecActive == InitActive /\ [][NextActive]_vars

\* ------------------------------------- POST /api/resume/upload, the intake
\* allowedTypes of the fileFilter
AllowedTypes == {"application/pdf",
                 "application/vnd.openxmlformats-officedocument.wordprocessingml.document"}

\* what a request can carry in its resume field: nothing, or a file of a type
Mimetypes == {"none", "text/plain"} \cup AllowedTypes

\* originalname of the uploaded file
OriginalName(mimetype) == IF mimetype = "application/pdf" THEN "cv.pdf" ELSE "cv.docx"

\* what parseResume can return: no text, or the words of the file (a text of
\* white space only has no word)
ExtractedTexts == {NoText} \cup ResumeTexts

uploadVars == <<listed, search, scored, auxVars, extVars, calc, now, job_listings, resumes,
                resumeSeq, job_matches, ups, tasks, cam, camResult, sweep,
                upsertCount, uploadCount, commits>>

UploadAnswered(u, status) == [u EXCEPT !.pc = "answered", !.status = status]

\* Express's answer to an error a middleware passed on, when the application
\* registers no error handler
DefaultErrorStatus == 500

\* the request arrives at upload.single('resume'): the fileFilter turns a
\* file of another type down with an Error; without a file the handler
\* answers 400; otherwise parseResume is awaited
UploadArrives(mimetype) ==
    /\ upload.pc \in {"idle", "answered"}
    /\ cam.pc = "idle"
    /\ uploadCount < MaxUploads
    /\ upload' = IF mimetype = "none"
                 THEN UploadAnswered([NoUpload EXCEPT !.mimetype = mimetype], 400)
                 ELSE IF mimetype \notin AllowedTypes
                 THEN UploadAnswered([NoUpload EXCEPT !.mimetype = mimetype],
                                     DefaultErrorStatus)
                 ELSE [NoUpload EXCEPT !.pc = "parse", !.mimetype = mimetype]
    /\ UNCHANGED uploadVars

\* parseResume settles: a throw is answered 500 by the outer catch, no text
\* is answered 400; otherwise the INSERT is run
UploadParsed(throws, rawText) ==
    /\ upload.pc = "parse"
    /\ upload' = IF throws THEN UploadAnswered(upload, 500)
                 ELSE IF rawText = NoText
                 THEN UploadAnswered([upload EXCEPT !.extracted = TRUE], 400)
                 ELSE [upload EXCEPT !.pc = "save", !.extracted = TRUE,
                                     !.text = rawText]
    /\ UNCHANGED uploadVars

\* callback of the INSERT OR REPLACE INTO resumes: an error answers 500,
\* otherwise calculateAllMatches is awaited
UploadStore(fail) ==
    /\ upload.pc = "save"
    /\ saveResume(OriginalName(upload.mimetype), upload.text, fail)
    /\ upload' = IF fail THEN UploadAnswered(upload, 500)
                 ELSE [upload EXCEPT !.pc = "matching"]

\* calculateAllMatches settled, resolved or rejected: both are answered 200
UploadDone ==
    /\ upload.pc = "matching"
    /\ cam.pc = "idle"
    /\ upload' = UploadAnswered(upload, 200)
    /\ UNCHANGED uploadVars

\* Upload intake: upload requests with any file, one after the other, each
\* with its full recalculation, over a store with listings
NextUpload ==
    \/ \E mimetype \in Mimetypes : UploadArrives(mimetype)
    \/ \E throws \in BOOLEAN, rawText \in ExtractedTexts : UploadParsed(throws, rawText)
    \/ \E fail \in BOOLEAN : UploadStore(fail)
    \/ UploadDone
    \/ \E fail \in BOOLEAN : CamDelete(fail)
    \/ \E fail \in BOOLEAN : CamSelect(fail)
    \/ \E fail \in BOOLEAN : CamInsert(fail)

SpecUpload == InitActive /\ [][NextUpload]_vars

\* ------------------------- POST /api/resume/upload, requests in flight at once
runVars == <<listed, search, upload, scored, norm, auth, calls, extVars, calc, now,
             job_listings, ups, tasks, cam, camResult, sweep, upsertCount,
             uploadCount, commits>>

\* variant: the id is resolved again for each row, as the id of the latest
\* resume
RunResumeId_Latest(run) == CurrentResumeId

\* the resume id a run writes its rows under: the argument resumeID of
\* calculateAllMatches, this.lastID of the INSERT of its request
RunResumeId(run) == run.resumeID

\* request k: callback of INSERT OR REPLACE INTO resumes; on success
\* calculateAllMatches(this.lastID, rawText) is called and runs its DELETE
RunUpload(k, filename, rawText, fail) ==
    /\ runs.run[k].pc = "idle"
    /\ \A q \in RunIds : q < k => runs.run[q].resumeID # 0 \/ runs.run[q].failed
    /\ runs.run[k].resumeID = 0 /\ ~runs.run[k].failed
    /\ IF fail
       THEN /\ runs' = [runs EXCEPT !.run[k].failed = TRUE]
            /\ UNCHANGED <<resumes, resumeSeq>>
       ELSE /\ resumeSeq' = resumeSeq + 1
            /\ resumes' = {x \in resumes : x.filename # filename} \cup
                   {[id |-> resumeSeq + 1, filename |-> filename,
                     raw_text |-> rawText, updated_at |-> now]}
            /\ runs' = [run |-> [runs.run EXCEPT ![k] =
                                    [IdleCam EXCEPT !.pc = "delete",
                                                    !.resumeID = resumeSeq + 1,
                                                    !.rawText = rawText]],
                        texts |-> Append(runs.texts, rawText)]
    /\ UNCHANGED <<runVars, job_matches>>

\* the run of request k is over and the request answered
RunOver(run) == [run EXCEPT !.pc = "idle", !.jobs = {}, !.pending = << >>]

\* callback of DELETE FROM job_matches WHERE resume_id = ?
RunDelete(k, fail) ==
    /\ runs.run[k].pc = "delete"
    /\ IF fail
       THEN /\ runs' = [runs EXCEPT !.run[k] = RunOver(@)]
            /\ UNCHANGED job_matches
       ELSE /\ job_matches' = {x \in job_matches : x.resume_id # RunResumeId(runs.run[k])}
            /\ runs' = [runs EXCEPT !.run[k].pc = "select"]
    /\ UNCHANGED <<runVars, resumes, resumeSeq>>

\* callback of SELECT id, title, description FROM job_listings WHERE status =
\* 'active': the score of every described job is computed from rawText and
\* its INSERT OR REPLACE queued
RunSelect(k, fail) ==
    /\ runs.run[k].pc = "select"
    /\ LET run == runs.run[k]
           jobs == {[id |-> x.id, title |-> x.title, description |-> x.description] :
                       x \in {y \in job_listings : y.status = "active"}}
           described == {j \in jobs : j.description # NoText}
           queued == [i \in 1..Cardinality(described) |->
                        [job_id |-> SeqById(described)[i].id,
                         score |-> calculateMatchScore(run.rawText,
                                       SeqById(described)[i].description,
                                       SeqById(described)[i].title).score]]
       IN  runs' = IF fail \/ described = {}
                   THEN [runs EXCEPT !.run[k] = RunOver(@)]
                   ELSE [runs EXCEPT !.run[k] =
                           [run EXCEPT !.pc = "insert", !.jobs = jobs,
                                       !.pending = queued,
                                       !.jobsToProcess = Cardinality(described)]]
    /\ UNCHANGED <<runVars, resumes, resumeSeq, job_matches>>

\* callback of one INSERT OR REPLACE INTO job_matches of the run of request k
RunInsert(k, fail) ==
    /\ runs.run[k].pc = "insert"
    /\ LET run == runs.run[k]
           item == Head(run.pending)
           jobsProcessed == run.jobsProcessed + 1
       IN  /\ job_matches' =
                  IF fail THEN job_matches
                  ELSE InsertOrReplaceMatch(job_matches, RunResumeId(run),
                                            item.job_id, item.score)
           /\ runs' = IF jobsProcessed = run.jobsToProcess
                      THEN [runs EXCEPT !.run[k] = RunOver(@)]
                      ELSE [runs EXCEPT !.run[k] =
                              [run EXCEPT !.pending = Tail(@),
                                          !.totalScore = @ + item.score,
                                          !.jobsProcessed = jobsProcessed]]
    /\ UNCHANGED <<runVars, resumes, resumeSeq>>

\* Uploads in flight at once: each request stores its resume and runs its
\* full recalculation, the callbacks of the runs interleaved in any order
NextRuns ==
    \/ \E k \in RunIds, f \in ResumeFiles, text \in ResumeTexts, fail \in BOOLEAN :
           RunUpload(k, f, text, fail)
    \/ \E k \in RunIds, fail \in BOOLEAN : RunDelete(k, fail)
    \/ \E k \in RunIds, fail \in BOOLEAN : RunSelect(k, fail)
    \/ \E k \in RunIds, fail \in BOOLEAN : RunInsert(k, fail)

SpecRuns == InitActive /\ [][NextRuns]_vars

\* ================================================================= claims

\* the upsert of handler r commits in this step
Commits(r) == ups[r].pc = "write" /\ commits'.n = ups[r].n /\ commits.n # ups[r].n

\* C1: for every listing, under any sequence of upserts and sweeps, the only
\* status change is active -> expired; an expired listing never becomes
\* active again, also when its external id is upserted again with a new
\* posted date.
C1_StatusNeverReverses ==
    [][\A x \in job_listings : \A y \in job_listings' :
          (y.job_id = x.job_id /\ y.status # x.status)
              => (x.status = "active" /\ y.status = "expired")]_vars

\* an expired listing that was upserted again: its expiry lies in the future
C1_Witness ==
    \E x \in job_listings : x.status = "expired" /\ x.expires_at > now

\* C2: storage holds at most one row per external id; upserting an external
\* id that already exists leaves the row count unchanged and stores the
\* title of that upsert.
C2_OneRowPerExternalId ==
    /\ [](\A x, y \in job_listings : x.job_id = y.job_id => x = y)
    /\ [][\A r \in Reqs :
            (Commits(r) /\ ListingByJobId(ups[r].row.job_id) # NoRow)
                => /\ Cardinality(job_listings') = Cardinality(job_listings)
                   /\ \E y \in job_listings' :
                          y.job_id = ups[r].row.job_id /\ y.title = ups[r].row.title]_vars

\* a row first stored from the posting titled T1 now carries the title T2
C2_Witness ==
    /\ Cardinality(job_listings) = 1
    /\ \E x \in job_listings :
           x.title = T2 /\ x.description_summary = SummaryOf(D1)

\* the cached summary stored for the external id handler r works on
StoredSummary(r) ==
    IF ListingByJobId(ups[r].row.job_id) = NoRow THEN NoText
    ELSE ListingByJobId(ups[r].row.job_id).description_summary

\* handler r runs an upsert that no other upsert of the same external id has
\* overlapped
Sequential(r) == ups[r].pc # "idle" /\ ups[r].peer = 0

\* C3: when a listing stored with a non-null cached summary is upserted
\* again, sequentially, the summarizer is not invoked and the stored summary
\* after the upsert equals the summary before it.
C3_SummaryPreserved ==
    /\ [](\A r \in Reqs :
            (Sequential(r) /\ StoredSummary(r) # NoText) => ups[r].pc # "summarize")
    /\ [][\A r \in Reqs :
            (Sequential(r) /\ StoredSummary(r) # NoText /\ Commits(r))
                => \E y \in job_listings' :
                       /\ y.job_id = ups[r].row.job_id
                       /\ y.description_summary = StoredSummary(r)]_vars

\* the listings a single upsert can leave behind when it runs alone on the
\* stored listing st (clock-independent columns): with the summarizer answer
\* it got in the run, or any answer if it did not call the summarizer there
AloneOn(st, slot) ==
    LET kept == IF st = NoRow THEN NoText ELSE st.description_summary
        answers == IF slot.resp # Uncalled THEN {slot.resp}
                   ELSE generateJobDescriptionSummary(slot.row.description)
        summaries == IF slot.row.description = NoText THEN {NoText}
                     ELSE IF kept # NoText THEN {kept}
                     ELSE answers
    IN  {[id |-> 1, title |-> slot.row.title, description |-> slot.row.description,
          description_summary |-> Coalesce(ds, kept),
          posted_date |-> slot.row.posted_date] : ds \in summaries}

\* first a, then b
OneAfterTheOther(st, a, b) == UNION {AloneOn(mid, b) : mid \in AloneOn(st, a)}

\* handlers a and b have both settled upserts of one external id that
\* overlapped each other and nothing else, without a storage failure
OverlappedPair(a, b) ==
    /\ a # b
    /\ ups[a].pc = "idle" /\ ups[b].pc = "idle"
    /\ ups[a].n # 0 /\ ups[a].n < ups[b].n
    /\ ups[a].peer = ups[b].n /\ ups[b].peer = ups[a].n
    /\ ~ups[a].rdFail /\ ~ups[b].rdFail /\ ~ups[a].wrFail /\ ~ups[b].wrFail

\* C4: after two concurrent upserts of the same external id, however their
\* read, summarize and write steps interleave, the stored row (title,
\* description, cached summary, posted date) is one that running the two
\* upserts one after the other, in some order, produces.
C4_Serializable ==
    \A a, b \in Reqs :
        OverlappedPair(a, b)
            => Proj(ListingByJobId(ups[a].row.job_id))
                   \in OneAfterTheOther(ups[a].base, ups[a], ups[b])
                       \cup OneAfterTheOther(ups[a].base, ups[b], ups[a])

\* C5: calculateJobExpiration returns posted date + 14 days with method
\* posted_date when the posted date parses; otherwise creation time + 14 days
\* with method created_at when the creation time parses; otherwise null with
\* method never.
C5_ExpirationRule ==
    calc.returned =>
        IF calc.postedDate.kind = "instant"
        THEN calc.result = [expiresAt |-> calc.postedDate.t + TwoWeeks,
                            expirationMethod |-> "posted_date"]
        ELSE IF calc.createdAt.kind = "instant"
        THEN calc.result = [expiresAt |-> calc.createdAt.t + TwoWeeks,
                            expirationMethod |-> "created_at"]
        ELSE calc.result = [expiresAt |-> NoTime, expirationMethod |-> "never"]

\* the call with an unparseable posted date and a creation time has returned
C5_Witness ==
    /\ calc.returned
    /\ calc.postedDate = PostedBad
    /\ calc.createdAt = PostedAt(1)
    /\ calc.result.expiresAt = 3

\* C6: a stored listing whose posted date is absent or unparseable has
\* expiration method created_at and an expires_at equal to its stored
\* creation timestamp plus 14 days, after any sequence of upserts.
C6_ExpiryFromCreation ==
    \A x \in job_listings :
        x.posted_date.kind # "instant"
            => /\ x.expiration_method = "created_at"
               /\ x.expires_at = x.created_at + TwoWeeks

\* C7: a sweep turns exactly the active rows with a non-null expires_at <= now
\* into expired rows, leaves every other row as it is, and returns the number
\* of rows it turned.
C7_SweepExact ==
    [][sweep' # sweep =>
          /\ Cardinality(job_listings') = Cardinality(job_listings)
          /\ \A x \in job_listings :
                 \E y \in job_listings' :
                     /\ y.id = x.id
                     /\ IF x.status = "active" /\ x.expires_at \in 0..now
                        THEN y = [x EXCEPT !.status = "expired"]
                        ELSE y = x
          /\ sweep'.count = Cardinality(ExpiredIds(job_listings')
                                            \ ExpiredIds(job_listings))]_vars

\* a sweep has expired one listing and left a listing that expires later
C7_Witness ==
    /\ sweep.count = 1
    /\ \E x \in job_listings : x.status = "expired" /\ x.expires_at <= now
    /\ \E x \in job_listings : x.status = "active" /\ x.expires_at > now

\* C8: the set of expired listings established by a sweep is contained in the
\* set established by every later sweep, and stays expired in between,
\* whatever upserts happen.
C8_SweepMonotonic ==
    /\ [](sweep.expired \subseteq ExpiredIds(job_listings))
    /\ [][sweep'.at >= sweep.at => sweep.expired \subseteq sweep'.expired]_vars

\* a listing expired by a sweep was upserted again with a later expiry
C8_Witness ==
    \E x \in job_listings : x.id \in sweep.expired /\ x.expires_at > now

\* nothing is in flight: no upsert, no recalculation callback, no upload
Quiescent ==
    /\ \A r \in Reqs : ups[r].pc = "idle"
    /\ tasks = {}
    /\ cam.pc = "idle"

\* C9: once the upsert of a listing with a non-empty description has
\* committed while a resume existed, and everything it triggered has run (the
\* full recalculation of that resume having resolved without failure), a
\* JobMatch row for (current resume, listing) is stored with the score of the
\* ingested title and description.
C9_MatchStoredAfterUpsert ==
    (Quiescent /\ camResult.status = "resolved" /\ ~camResult.failed) =>
        \A x \in job_listings : \A res \in LatestResumes :
            (x.description # NoText /\ commits.resume[x.job_id] = res.id)
                => \E m \in job_matches :
                       /\ m.resume_id = res.id
                       /\ m.job_id = x.id
                       /\ m.matched_score =
                              calculateMatchScore(res.raw_text, x.description,
                                                  x.title).score

\* the calculateAllMatches run settles in this step, resolved and without a
\* storage failure
CamResolves ==
    /\ camResult.status = "none"
    /\ camResult'.status = "resolved"
    /\ ~camResult'.failed

\* the ids of the listings the JobMatch rows of a resume pair it with, and
\* whether they are one row per listing
MatchedIds(table, resumeID) == {m.job_id : m \in {x \in table : x.resume_id = resumeID}}

OneRowEach(table, resumeID) ==
    Cardinality({x \in table : x.resume_id = resumeID})
        = Cardinality(MatchedIds(table, resumeID))

\* C10 as claimed: when recalculateAll completes without storage failures,
\* the JobMatch rows of its resume are exactly one row per listing that is
\* active with a non-empty description, and jobsProcessed is their number.
C10_RowsForActiveListings ==
    [][CamResolves =>
          LET eligible == {x.id : x \in {y \in job_listings' :
                              y.status = "active" /\ y.description # NoText}}
          IN  /\ MatchedIds(job_matches', camResult'.resumeID) = eligible
              /\ OneRowEach(job_matches', camResult'.resumeID)
              /\ camResult'.jobsProcessed = Cardinality(eligible)]_vars

\* C10 amended: when recalculateAll completes without storage failures, the
\* JobMatch rows of its resume are exactly one row per listing that was
\* active with a non-empty description when the run read the listings, and
\* jobsProcessed is their number.
C10_RowsForListingsRead ==
    [][CamResolves =>
          LET read == IF cam.pc = "select"
                      THEN {[id |-> y.id, description |-> y.description] :
                               y \in {z \in job_listings : z.status = "active"}}
                      ELSE {[id |-> j.id, description |-> j.description] : j \in cam.jobs}
              eligible == {j.id : j \in {k \in read : k.description # NoText}}
          IN  /\ MatchedIds(job_matches', camResult'.resumeID) = eligible
              /\ OneRowEach(job_matches', camResult'.resumeID)
              /\ camResult'.jobsProcessed = Cardinality(eligible)]_vars

\* a run has resolved after storing the match of a listing
C10_Witness ==
    /\ camResult.status = "resolved"
    /\ ~camResult.failed
    /\ camResult.jobsProcessed = 1
    /\ \E m \in job_matches : m.resume_id = camResult.resumeID

\* the calculateAllMatches run settles resolved in this step, with or without
\* failed row writes
CamSettles == camResult.status = "none" /\ camResult'.status = "resolved"

\* the sum of the scores of a set of JobMatch rows
RECURSIVE SumScores(_)
SumScores(rows) ==
    IF rows = {} THEN 0
    ELSE LET m == CHOOSE x \in rows : TRUE
         IN  m.matched_score + SumScores(rows \ {m})

\* C11: the averageScore recalculateAll returns is the rounded mean of the
\* scores of the JobMatch rows that call stored, also when row writes fail,
\* and 0 when nothing was processed; jobsProcessed counts the stored rows.
C11_AverageOfStoredRows ==
    [][CamSettles =>
          LET stored == {m \in job_matches' : m.resume_id = camResult'.resumeID}
          IN  /\ camResult'.jobsProcessed = Cardinality(stored)
              /\ camResult'.averageScore =
                     IF stored = {} THEN 0
                     ELSE Round(SumScores(stored), Cardinality(stored))]_vars

\* C12: after any sequence of uploads, full recalculations and single-listing
\* recalculations, job_matches holds at most one row per (resume id, listing
\* id) pair.
C12_OneRowPerPair ==
    \A m1 \in job_matches : \A m2 \in job_matches :
        (m1.resume_id = m2.resume_id /\ m1.job_id = m2.job_id) => m1 = m2

\* a stored pair was written again with another score, next to other rows
C12_Witness ==
    /\ replaced
    /\ Cardinality(job_matches) >= 2

\* a request of the match list answers its rows in this step
ReadReturns ==
    /\ reader.pc = "matches"
    /\ reader'.pc = "idle"
    /\ reader'.answer = "matches"
    /\ reader'.matches # {}

\* C13: every match the read path returns was computed from the text of the
\* most recently uploaded resume: once an upload has answered with its
\* recalculation resolved, a request made afterwards returns no match
\* computed from the other text of a resume uploaded before it.
C13_ReadsLatestResume ==
    [][(ReadReturns /\ reader.settled) =>
          \A x \in resumes : \A y \in resumes :
              (x.id = reader.uploaded /\ y.id = reader.resumeID)
                  => y.raw_text = x.raw_text]_vars

\* the active listings that match no saved job with status 'saved', keys
\* compared lowercased and trimmed
Displayable ==
    {x \in job_listings :
        /\ x.status = "active"
        /\ ~\E sj \in saved_jobs :
               /\ sj.status = "saved"
               /\ NormalKey(sj.title) = NormalKey(x.title)
               /\ NormalKey(sj.company) = NormalKey(x.company)}

RECURSIVE Flatten(_)
Flatten(pages) == IF pages = << >> THEN << >> ELSE Head(pages) \o Flatten(Tail(pages))

\* C14: over a fixed store, the pages 1, 2, ... up to the first empty or
\* short page, put together, hold every active listing that matches no saved
\* job exactly once (all requests having succeeded).
C14_PagesCoverUnsaved ==
    (finder.browse.complete /\ finder.browse.clean) =>
        LET seen == Flatten(finder.browse.pages)
        IN  /\ Len(seen) = Cardinality(Range(seen))
            /\ Range(seen) = {x.id : x \in Displayable}

\* C15: no page holds an active listing whose (title, company) equals,
\* lowercased and trimmed, that of a saved job with status 'saved'.
C15_SavedNeverShown ==
    \A i \in 1..Len(finder.allJobs) :
        \E x \in Displayable : x.id = finder.allJobs[i].id

\* C16: the total the count endpoint answers is the number of active
\* listings that match no saved job, matching lowercased and trimmed as page
\* assembly does, and so the number of listings of all pages together.
C16_CountMatchesPages ==
    /\ finder.totalJobsCount # NoCount
           => finder.totalJobsCount = Cardinality(Displayable)
    /\ (finder.totalJobsCount # NoCount /\ finder.browse.complete
            /\ finder.browse.clean)
           => finder.totalJobsCount = Len(Flatten(finder.browse.pages))

\* a page of listings is on display: the last fetchJobs run ended without error
PageShown == finder.loaded /\ finder.pc = "idle" /\ ~finder.error

\* the active listings page assembly can read, the first Cap in list order,
\* that match no saved job
WithinCap ==
    LET inOrder == OrderByCreatedDesc({x \in job_listings : x.status = "active"})
        read == SubSeq(inOrder, 1, Min(Len(inOrder), Cap))
    IN  {x \in Displayable : x \in Range(read)}

C17_TotalFollowsSaves ==
    (finder.clicks > 0 /\ finder.saving = {} /\ ~finder.counting
        /\ finder.totalJobsCount # NoCount)
        => finder.totalJobsCount = CountJobs(job_listings, saved_jobs)

\* C18: a page, when fetchJobs displays it (its saved-jobs request having
\* succeeded), holds no listing that matches a saved job stored by then,
\* also when the save completed between two requests of the run.
C18_NoSavedOnDisplay ==
    [][(finder.pc # "idle" /\ finder'.pc = "idle" /\ ~finder'.error
            /\ ~finder'.savedFailed)
         => \A i \in 1..Len(finder'.cards) :
                ~\E sj \in saved_jobs' :
                    /\ sj.status = "saved"
                    /\ NormalKey(sj.title) = NormalKey(finder'.cards[i].title)
                    /\ NormalKey(sj.company) = NormalKey(finder'.cards[i].company)]_vars

\* C19: with listings inserted and expired between the batch fetches of a
\* run, the page fetchJobs displays holds no listing twice, and each of its
\* listings is one a batch fetch returned and the run's saved jobs do not
\* match.
C19_NoListingTwice ==
    [][(finder.pc # "idle" /\ finder'.pc = "idle" /\ ~finder'.error)
         => LET shown == finder'.cards
            IN  /\ \A i, k \in 1..Len(shown) : shown[i].id = shown[k].id => i = k
                /\ \A i \in 1..Len(shown) :
                       /\ \E x \in job_listings : x.id = shown[i].id
                       /\ ~isSaved(shown[i], finder'.savedJobs)]_vars

\* C21: whatever the limit parameter, an answer of the list endpoint holds
\* at most 100 listings.
C21_AtMostHundred ==
    (listed.kind = "list" /\ listed.status = 200) => Len(listed.jobs) <= LimitCap

\* the listing with this id is stored with status active
ActiveId(id) == \E x \in job_listings : x.id = id /\ x.status = "active"

\* an answer of the list endpoint holds active listings only, and the count
\* endpoint counts active listings only
AnswersActiveOnly ==
    /\ (listed' # listed /\ listed'.kind = "list")
           => \A i \in 1..Len(listed'.jobs) : ActiveId(listed'.jobs[i].id)
    /\ (listed' # listed /\ listed'.kind = "count" /\ listed'.status = 200)
           => listed'.total <= Cardinality({x \in job_listings : x.status = "active"})

\* C22 as stated: the list endpoint answers active listings only, the count
\* endpoint counts active listings only, and recalculateAll stores a match
\* only for a listing that is active.
C22_ActiveOnly ==
    [][/\ AnswersActiveOnly
       /\ \A m \in job_matches' \ job_matches : ActiveId(m.job_id)]_vars

\* C22 amended: the list endpoint answers active listings only, the count
\* endpoint counts active listings only, and recalculateAll stores a match
\* only for a listing that was active when the run read the listing table.
C22_ActiveWhenRead ==
    [][/\ AnswersActiveOnly
       /\ (cam.pc = "select" /\ cam'.pc = "insert")
              => \A j \in cam'.jobs : ActiveId(j.id)
       /\ \A m \in job_matches' \ job_matches :
              \E j \in cam.jobs : j.id = m.job_id]_vars

C22_Witness ==
    /\ listed.kind = "list"
    /\ listed.status = 200
    /\ Len(listed.jobs) > 0
    /\ job_matches # {}
    /\ \E x \in job_listings :
           /\ x.status = "expired"
           /\ \A i \in 1..Len(listed.jobs) : listed.jobs[i].id # x.id
           /\ \A m \in job_matches : m.job_id # x.id

C24_FailedSearchIsInert ==
    [][/\ (search.pc \in {"idle", "done"} /\ search'.pc = "provider")
              => /\ job_listings' = job_listings
                 /\ job_matches' = job_matches
       /\ (search.pc \in {"idle", "provider"} /\ search'.pc = "done"
              /\ search'.body = << >> /\ search'.jobs = << >>
              /\ search'.status # 200)
              => /\ search'.status \in {400, 500, 502}
                 /\ job_listings' = job_listings
                 /\ job_matches' = job_matches
                 /\ ups' = ups
                 /\ tasks' = tasks
                 /\ search'.attempted = {}
                 /\ search'.calls <= 1
       /\ (search.pc = "provider" /\ search'.pc = "provider")
              => search' = search]_vars

C24_Witness ==
    /\ search.pc = "done"
    /\ search.status = 502
    /\ search.calls = 1
    /\ job_listings # {}

\* C25: an upload whose file is of an unsupported type, or whose extracted
\* text is empty, is answered with a 4xx status, and the step that answers
\* it changes neither the resume table nor the match table nor starts a
\* recalculation.
C25_Rejected ==
    /\ upload.pc = "answered"
    /\ \/ upload.mimetype \notin AllowedTypes \cup {"none"}
       \/ upload.extracted /\ upload.text = NoText

C25_BadFileIsClientError ==
    [][(upload' # upload /\ C25_Rejected')
          => /\ upload'.status \in 400..499
             /\ resumes' = resumes
             /\ resumeSeq' = resumeSeq
             /\ job_matches' = job_matches
             /\ cam' = cam]_vars

\* the row of posting j in a listing table, its status left aside
C26_Content(table, j) ==
    {[x EXCEPT !.status = "active"] : x \in {y \in table : y.job_id = j}}

\* the summary resolution of the upsert in a slot has finished: the
\* summarizer returned, or was skipped for want of a description or because
\* the stored row has a summary
C26_SummaryResolved(slot) ==
    \/ slot.row.description = NoText
    \/ slot.resp # Uncalled
    \/ slot.descriptionSummary # NoText

\* C26: a step that writes the row of a posting is the statement callback
\* of an upsert of that posting whose summary resolution has finished, and a
\* step that queues the single-listing recalculation of a posting is a step
\* in which the write of that posting committed and after which the row is
\* in the table.
C26_WriteAfterSummary ==
    [][/\ \A j \in JobIds :
            C26_Content(job_listings', j) # C26_Content(job_listings, j)
                => \E r \in Reqs : /\ ups[r].pc = "write"
                                   /\ ups[r].row.job_id = j
                                   /\ C26_SummaryResolved(ups[r])
                                   /\ ups'[r].pc = "idle"
       /\ \A t \in tasks' \ tasks :
            t.pc = "lookup"
                => /\ commits'.n # commits.n
                   /\ C26_Content(job_listings', t.job_id) # {}
                   /\ \E r \in Reqs : /\ ups[r].pc = "write"
                                      /\ ups[r].row.job_id = t.job_id
                                      /\ ups[r].n = commits'.n]_vars

\* a described posting is stored with the summary its upsert resolved, and
\* its recalculation is queued
C26_Witness ==
    \E x \in job_listings :
        /\ x.description # NoText
        /\ x.description_summary = SummaryOf(x.description)
        /\ \E t \in tasks : t.pc = "lookup" /\ t.job_id = x.job_id

Axes == {"technical", "softSkills", "experience", "education"}

\* C27: the score a call returns is an integer from 0 to 100, and so is
\* each of the four axis values of its breakdown.
C27_ScoreInRange ==
    scored.returned
        => /\ scored.result.score \in 0..100
           /\ \A axis \in Axes : scored.result.breakdown[axis] \in 0..100

\* a call with a job that asks for skills of every axis and a resume that
\* has some of them has returned
C27_Witness ==
    /\ scored.returned
    /\ \A axis \in Axes : extractAllSkills(scored.jobDesc)[axis] # << >>
    /\ scored.result.score \in 1..99

\* C28: an axis of which neither the job title nor the job description
\* holds a keyword has the value 100 whatever the resume is, and with an
\* empty job description all four axis values and the score are 100.
C28_AxisWithoutKeyword ==
    scored.returned
        => /\ \A axis \in Axes :
                extractAllSkills(scored.jobTitle \o scored.jobDesc)[axis] = << >>
                    => scored.result.breakdown[axis] = 100
           /\ scored.jobDesc = NoText
                => /\ \A axis \in Axes : scored.result.breakdown[axis] = 100
                   /\ scored.result.score = 100

\* a call with an empty description and a resume without any keyword has
\* returned
C28_Witness ==
    /\ scored.returned
    /\ scored.jobDesc = NoText
    /\ scored.resumeText # NoText
    /\ \A axis \in Axes : extractAllSkills(scored.resumeText)[axis] = << >>

\* C29: the result of a call is the result for the job text made of the
\* title followed by the description: a keyword of the title is a job-side
\* skill of its axis.
C29_TitleCounts ==
    scored.returned
        => scored.result = calculateMatchScore(scored.resumeText,
                               scored.jobTitle \o scored.jobDesc, NoText)

\* the exact value of round(0.10 t + 0.20 s + 0.40 x + 0.30 e) for the axis
\* values 100 * matched / required (100 without a job-side skill) of the
\* skills the call extracted
C30_Exact(resumeText, jobDesc) ==
    LET resumeSkills == extractAllSkills(resumeText)
        jobSkills == extractAllSkills(jobDesc)
        m(axis) == Len(Matched(jobSkills[axis], resumeSkills[axis]))
        n(axis) == Len(jobSkills[axis])
        num(axis) == IF n(axis) > 0 THEN 100 * m(axis) ELSE 100
        den(axis) == IF n(axis) > 0 THEN n(axis) ELSE 1
        all == den("technical") * den("softSkills") * den("experience")
                   * den("education")
        weighted == 1 * num("technical") * (all \div den("technical"))
                    + 2 * num("softSkills") * (all \div den("softSkills"))
                    + 4 * num("experience") * (all \div den("experience"))
                    + 3 * num("education") * (all \div den("education"))
    IN  (2 * weighted + 10 * all) \div (2 * 10 * all)

\* C30: the score of a call is the weighted sum of the unrounded axis
\* values, rounded to the nearest integer.
C30_WeightedSum ==
    scored.returned => scored.result.score = C30_Exact(scored.resumeText, scored.jobDesc)

\* C31: normalizing the result of normalizeText once more gives the same
\* text, and a null, an empty or a non-string argument gives the empty
\* string.
C31_NormalizeIdempotent ==
    /\ norm.pc = "twice" => norm.again = norm.result
    /\ (norm.pc \in {"returned", "twice"}
           /\ (norm.text.kind # "string" \/ norm.text.chars = << >>))
          => norm.result = << >>

\* a text with a capital, a special character and white space at an end
\* was normalized twice
C31_Witness ==
    /\ norm.pc = "twice"
    /\ norm.text.kind = "string"
    /\ norm.result # << >>
    /\ norm.result # norm.text.chars
    /\ "-" \in Range(norm.text.chars)
    /\ "A" \in Range(norm.text.chars)

\* the rows of posting j in a listing table
C32_Rows(table, j) == {x \in table : x.job_id = j}

C35_ExpiredHasPastExpiry ==
    \A x \in job_listings :
        x.status = "expired"
            => /\ x.expires_at # NoTime
               /\ sweep.at # NoTime
               /\ x.expires_at <= sweep.at

\* C33: every row of job_matches carries, with its resume id, the score of
\* the text that was uploaded under that id, whatever other upload is in
\* flight.
C33_RowsOfOneResume ==
    \A m \in job_matches :
        /\ m.resume_id \in 1..Len(runs.texts)
        /\ \E x \in job_listings :
              /\ x.id = m.job_id
              /\ m.matched_score =
                     calculateMatchScore(runs.texts[m.resume_id], x.description,
                                         x.title).score

\* two runs for two different texts are in flight, and rows of both resumes
\* are stored
C33_Witness ==
    /\ \A k \in {1, 2} : runs.run[k].pc = "insert"
    /\ runs.run[1].rawText # runs.run[2].rawText
    /\ \E m, n \in job_matches :
          /\ m.resume_id = 1
          /\ n.resume_id = 2
          /\ m.job_id = n.job_id
          /\ m.matched_score # n.matched_score

====
